---- MODULE Spec2Model ----
(***************************************************************************)
(* Model of the Twitter-to-Slack scraper: the lowdb-backed DatabaseService *)
(* (src/src/services/dbService.js) and the TwitterScraper run loop         *)
(* (src/src/scraper.js), with the fetch and delivery collaborators         *)
(* (src/unnamed/part_005) as nondeterministic environments.                *)
(*                                                                         *)
(* Texts are sequences of code points.  Time is counted in days.           *)
(***************************************************************************)
EXTENDS Integers, Sequences, FiniteSets, TLC

VARIABLES
  configFile,   \* src/config/profiles.json: the list of configured profiles
  profiles,     \* TwitterScraper.profiles
  stats,        \* TwitterScraper.stats
  pc,           \* position of the scraper: "new", "idle", "loop", "tweets"
  idx,          \* run(): index of the profile the for-loop is at
  cur,          \* processProfile(): the profile being processed (or NoProfile)
  pending,      \* processProfile(): filteredTweets not yet handled
  initialized,  \* DatabaseService.initialized
  db,           \* DatabaseService.db: lowdb's in-memory state
  disk,         \* the JSON file behind the FileSync adapter
  now,          \* the wall clock
  ticks,        \* history: number of clock advances
  delivered,    \* history: the tweets passed to slackService.sendTweet
  sendCalls,    \* history: number of slackService.sendTweet calls
  summaries,    \* history: number of slackService.sendSummary calls
  inflight,     \* the run() call each trigger of the server has in flight
  throttle,     \* TwitterService.rateLimiter, its callers and the clock in ms
  fetch,        \* the fetchUserTweets call in progress, applied on its own
  lambda,       \* serverless/handler.js: the container's scraper and invocation
  unsent,       \* history: the tweets whose sendTweet returned false
  runsDone,     \* history: number of run() calls that returned
  runThrew,     \* history: a run() call ended by throwing
  passed,       \* history: indices passed to processProfile in this run
  failed,       \* history: indices whose processProfile threw in this run
  lastBatch,    \* history: the batch the last fetch returned
  startedEmpty, \* history: the store was the default document at run start
  endCursor,    \* history: per user, greatest cursor seen at the end of a run
  lastOp,       \* history: name of the last datastore API call
  calls,        \* history: number of datastore API calls made directly
  pruned,       \* history: entries the last cleanup() discarded from the index
  markLog,      \* history: the tweets passed to markContentAsProcessed directly
  sincePrune,   \* history: fingerprints marked since the index was last pruned
  keptByPrune,  \* history: fingerprints the last pruning kept
  discarded,    \* history: cleaned texts cleanup() discarded, not marked since
  backupFile,   \* data/backup-<timestamp>.json as backup() last wrote it
  fnArgs,       \* the arguments of a function applied on its own
  fnResult      \* what the function returned (NoResult before the call)

vars == <<configFile, profiles, stats, pc, idx, cur, pending, initialized, db,
          disk, now, ticks, delivered, sendCalls, summaries, inflight, throttle, fetch, lambda,
          unsent, runsDone,
          runThrew,
          passed, failed,
          lastBatch, startedEmpty, endCursor, lastOp, calls, pruned, markLog,
          sincePrune, keptByPrune, discarded, backupFile, fnArgs, fnResult>>

fnVars == <<fnArgs, fnResult>>

apiVars == <<lastOp, calls, pruned, markLog, sincePrune, keptByPrune,
             discarded, backupFile>>

scraperVars == <<configFile, profiles, stats, pc, idx, cur, pending, delivered,
                 summaries, inflight, throttle, fetch, lambda,
                 sendCalls, unsent, runsDone, runThrew, passed, failed, lastBatch,
                 startedEmpty, endCursor>>

----------------------------------------------------------------------------
(* Bounds of the model *)

MaxBatch == 2     \* tweets one fetch returns at most
MaxRuns == 2      \* run() calls explored
MaxTicks == 1     \* clock advances explored
MaxCalls == 2     \* direct datastore API calls explored
MaxMarks == 1     \* direct markContentAsProcessed calls next to the engine
MaxFaultyRuns == 1  \* run() calls explored over a disk that may refuse a write
MaxStoreCalls == 1  \* direct calls explored when every writing method is called
MaxClockTicks == 4  \* advances of the millisecond clock explored
MaxOutbound == 3    \* outbound calls explored next to the rate limiter
MaxText == 4      \* characters of a text a function is applied to on its own
MaxCount == 2     \* greatest `count` passed to fetchUserTweets on its own
MaxFetched == 3   \* tweets the pages of one search hold at most, in total
MaxInvocations == 5  \* invocations of one Lambda container explored

(* Program constants *)

HistoryCap == 100
IndexCap == 1000
ErrorCap == 50
ThirtyDays == 30
RequestsPerMinute == 100  \* createRateLimiter(100) of the TwitterAPI.io client
MsPerMinute == 60000
NullId == 0       \* `null` for a tweet id; real ids are positive
maxAttempts == 30  \* waitForApifyRun: polls before it gives up
NullTime == 0     \* `null` for a timestamp; the clock starts at day 1

----------------------------------------------------------------------------
(* Text: String.prototype.replace(/\s+/g, ' '), trim, toLowerCase *)

IsSpace(c) == c \in {9, 10, 13, 32}

ToLowerChar(c) == IF c \in 65..90 THEN c + 32 ELSE c

toLowerCase(s) == [i \in 1..Len(s) |-> ToLowerChar(s[i])]

RECURSIVE CollapseWhitespace(_)
CollapseWhitespace(s) ==
  IF s = <<>> THEN <<>>
  ELSE IF IsSpace(Head(s))
       THEN IF Len(s) > 1 /\ IsSpace(s[2])
            THEN CollapseWhitespace(Tail(s))
            ELSE <<32>> \o CollapseWhitespace(Tail(s))
       ELSE <<Head(s)>> \o CollapseWhitespace(Tail(s))

RECURSIVE TrimStart(_)
TrimStart(s) ==
  IF s # <<>> /\ IsSpace(Head(s)) THEN TrimStart(Tail(s)) ELSE s

RECURSIVE TrimEnd(_)
TrimEnd(s) ==
  IF s # <<>> /\ IsSpace(s[Len(s)]) THEN TrimEnd(SubSeq(s, 1, Len(s) - 1)) ELSE s

trim(s) == TrimEnd(TrimStart(s))

CleanTextKeepCase(text) == trim(CollapseWhitespace(text))

CleanText(text) == toLowerCase(trim(CollapseWhitespace(text)))

\* crypto sha256 hex digest, taken to be collision free
Sha256Hex(s) == <<"sha256", s>>

generateContentHashNoFold(tweet) == Sha256Hex(CleanTextKeepCase(tweet.text))

generateContentHash(tweet) == Sha256Hex(CleanText(tweet.text))

\* String.prototype.includes
includes(text, word) ==
  \E i \in 0..(Len(text) - Len(word)) : SubSeq(text, i + 1, i + Len(word)) = word

\* faulty variant of matchesKeywords: neither side is lower-cased
matchesKeywordsExact(tweet, keywords) ==
  \/ Len(keywords) = 0
  \/ \E k \in 1..Len(keywords) : includes(tweet.text, keywords[k])

matchesKeywords(tweet, keywords) ==
  \/ Len(keywords) = 0
  \/ \E k \in 1..Len(keywords) :
       includes(toLowerCase(tweet.text), toLowerCase(keywords[k]))

\* a profile without a keywords property passes undefined, and the default
\* parameter of matchesKeywords makes it []
shouldIncludeTweet(tweet, profileConfig) ==
  /\ ~(tweet.retweeted_tweet /\ ~profileConfig.includeRetweets)
  /\ ~(tweet.isReply /\ ~profileConfig.includeReplies)
  /\ matchesKeywords(tweet, IF "keywords" \in DOMAIN profileConfig
                            THEN profileConfig.keywords ELSE <<>>)

----------------------------------------------------------------------------
(* The lowdb document and the DatabaseService operations on it *)

NoFile == [nofile |-> TRUE]

DefaultData(t) ==
  [profiles |-> <<>>,
   processedTweets |-> <<>>,
   stats |-> [totalTweetsProcessed |-> 0,
              totalSlackMessagesSent |-> 0,
              duplicateTweetsSkipped |-> 0,
              lastRun |-> NullTime,
              errors |-> <<>>],
   settings |-> [createdAt |-> t, version |-> "1.0.0"]]

\* faulty variant of LoadWithDefaults: the default document is always stored
LoadFresh(file, t) == DefaultData(t)

\* low(adapter) reads the file; db.defaults(...) fills the missing top-level keys
LoadWithDefaults(file, t) ==
  IF file = NoFile THEN DefaultData(t)
  ELSE [k \in DOMAIN DefaultData(t) \cup DOMAIN file |->
          IF k \in DOMAIN file THEN file[k] ELSE DefaultData(t)[k]]

\* an object with key k set to v (other keys kept)
ObjSet(obj, k, v) ==
  [x \in DOMAIN obj \cup {k} |-> IF x = k THEN v ELSE obj[x]]

\* position of a hash among the keys of processedTweets (0 when absent)
KeyIndex(index, h) ==
  IF \E i \in 1..Len(index) : index[i].hash = h
  THEN CHOOSE i \in 1..Len(index) : index[i].hash = h
  ELSE 0

\* faulty variant of isDuplicateContent: entries are looked up by tweet id
isDuplicateSameId(doc, tweet) ==
  \E i \in 1..Len(doc.processedTweets) :
    doc.processedTweets[i].tweetId = tweet.id_str

isDuplicateContent(doc, tweet) ==
  KeyIndex(doc.processedTweets, generateContentHash(tweet)) # 0

IndexEntry(tweet, username, t) ==
  [hash |-> generateContentHash(tweet),
   tweetId |-> tweet.id_str,
   username |-> username,
   processedAt |-> t,
   content |-> tweet.text]

\* faulty variant of markContentAsProcessed: the entry is always added
markAlwaysAppend(doc, tweet, username, t) ==
  [doc EXCEPT !.processedTweets = Append(@, IndexEntry(tweet, username, t))]

markContentAsProcessed(doc, tweet, username, t) ==
  LET index == doc.processedTweets
      e == IndexEntry(tweet, username, t)
      i == KeyIndex(index, e.hash)
  IN  [doc EXCEPT !.processedTweets =
         IF i = 0 THEN Append(index, e) ELSE [index EXCEPT ![i] = e]]

getLastTweetId(doc, username) ==
  IF username \in DOMAIN doc.profiles
  THEN doc.profiles[username].lastTweetId
  ELSE NullId

TweetCountOf(doc, username) ==
  IF username \in DOMAIN doc.profiles THEN doc.profiles[username].tweetCount ELSE 0

\* faulty variant of setLastTweetId: the count starts again at 1
setLastTweetIdFirst(doc, username, tweetId, t) ==
  [doc EXCEPT !.profiles =
     ObjSet(doc.profiles, username,
            [lastTweetId |-> tweetId, lastUpdated |-> t, tweetCount |-> 1])]

setLastTweetId(doc, username, tweetId, t) ==
  [doc EXCEPT !.profiles =
     ObjSet(doc.profiles, username,
            [lastTweetId |-> tweetId,
             lastUpdated |-> t,
             tweetCount |-> TweetCountOf(doc, username) + 1])]

HistoryOf(doc, username) ==
  IF username \in DOMAIN doc.profiles /\ "history" \in DOMAIN doc.profiles[username]
  THEN doc.profiles[username].history
  ELSE <<>>

TweetRecord(tweet, sentToSlack, isDuplicate, t) ==
  [id |-> tweet.id_str,
   text |-> tweet.text,
   created_at |-> tweet.created_at,
   processed_at |-> t,
   sent_to_slack |-> sentToSlack,
   is_duplicate |-> isDuplicate]

\* faulty variant of CapHistory: the history is never cut
KeepAll(history) == history

\* if (history.length > 100) history.splice(100)
CapHistory(history) ==
  IF Len(history) > HistoryCap THEN SubSeq(history, 1, HistoryCap) ELSE history

\* profile.set('history', history): lodash set() on a missing profile object
\* returns it as it is, so nothing is stored for a username without a record
RecordInHistory(doc, username, rec) ==
  IF username \in DOMAIN doc.profiles
  THEN [doc EXCEPT !.profiles[username] =
          ObjSet(doc.profiles[username], "history",
                 CapHistory(<<rec>> \o HistoryOf(doc, username)))]
  ELSE doc

\* faulty variant of UpdateStats: every recorded tweet counts as sent
UpdateStatsAllSent(doc, sentToSlack, isDuplicate, t) ==
  [doc EXCEPT
     !.stats.totalTweetsProcessed = @ + 1,
     !.stats.totalSlackMessagesSent = @ + 1,
     !.stats.duplicateTweetsSkipped = IF isDuplicate THEN @ + 1 ELSE @,
     !.stats.lastRun = t]

UpdateStats(doc, sentToSlack, isDuplicate, t) ==
  [doc EXCEPT
     !.stats.totalTweetsProcessed = @ + 1,
     !.stats.totalSlackMessagesSent = IF sentToSlack THEN @ + 1 ELSE @,
     !.stats.duplicateTweetsSkipped = IF isDuplicate THEN @ + 1 ELSE @,
     !.stats.lastRun = t]

recordTweet(doc, username, tweet, sentToSlack, isDuplicate, t) ==
  UpdateStats(RecordInHistory(doc, username,
                              TweetRecord(tweet, sentToSlack, isDuplicate, t)),
              sentToSlack, isDuplicate, t)

\* faulty variant of LastErrors: the first 50 are kept
FirstErrors(errors) ==
  IF Len(errors) > ErrorCap THEN SubSeq(errors, 1, ErrorCap) ELSE errors

\* errors.slice(-50)
LastErrors(errors) ==
  IF Len(errors) > ErrorCap
  THEN SubSeq(errors, Len(errors) - ErrorCap + 1, Len(errors))
  ELSE errors

recordError(doc, message, context, t) ==
  [doc EXCEPT !.stats.errors =
     LastErrors(Append(@, [message |-> message, context |-> context,
                           timestamp |-> t]))]

\* faulty variant of FilterHistory: the age is taken from created_at
FilterHistoryByCreation(history, t) ==
  SelectSeq(history, LAMBDA r : r.created_at > t - ThirtyDays)

\* profile.history.filter(tweet => new Date(tweet.processed_at) > thirtyDaysAgo)
FilterHistory(history, t) ==
  SelectSeq(history, LAMBDA r : r.processed_at > t - ThirtyDays)

CleanProfiles(profs, t) ==
  [u \in DOMAIN profs |->
     IF "history" \in DOMAIN profs[u]
     THEN [profs[u] EXCEPT !.history = FilterHistory(@, t)]
     ELSE profs[u]]

\* the latest timestamp among a non-empty set of timestamps
Latest(ts) == CHOOSE t \in ts : \A x \in ts : x <= t

Earliest(ts) == CHOOSE t \in ts : \A x \in ts : x >= t

\* faulty variant of the comparator: a.processedAt - b.processedAt
RECURSIVE SortAscending(_, _)
SortAscending(entries, ts) ==
  IF ts = {} THEN <<>>
  ELSE SelectSeq(entries, LAMBDA e : e.processedAt = Earliest(ts))
         \o SortAscending(entries, ts \ {Earliest(ts)})

\* Array.prototype.sort((a, b) => b.processedAt - a.processedAt) over the entries
\* whose timestamp is in ts: a stable sort, latest first, the entries of one
\* timestamp keeping their order
RECURSIVE SortDescending(_, _)
SortDescending(entries, ts) ==
  IF ts = {} THEN <<>>
  ELSE SelectSeq(entries, LAMBDA e : e.processedAt = Latest(ts))
         \o SortDescending(entries, ts \ {Latest(ts)})

Timestamps(entries) == {entries[i].processedAt : i \in 1..Len(entries)}

\* faulty variant of PruneIndex: keeps the oldest entries
PruneIndexOldest(index) ==
  IF Len(index) > IndexCap
  THEN SubSeq(SortAscending(index, Timestamps(index)), 1, IndexCap)
  ELSE index

\* the processedTweets part of cleanup()
PruneIndex(index) ==
  IF Len(index) > IndexCap
  THEN SubSeq(SortDescending(index, Timestamps(index)), 1, IndexCap)
  ELSE index

cleanup(doc, t) ==
  [doc EXCEPT !.profiles = CleanProfiles(@, t),
              !.processedTweets = PruneIndex(@)]

\* faulty variant of backup: only the profiles are written
backupProfilesOnly(doc) == [profiles |-> doc.profiles]

\* backup(): what fs.writeFileSync(backupPath, JSON.stringify(db.getState()))
\* puts in the side file
backup(doc) == doc

----------------------------------------------------------------------------
(* The environment: configured profiles, upstream timelines, stored files *)

Users == {"acme", "beta"}

Acme(includeRetweets) ==
  [username |-> "acme", enabled |-> TRUE, includeRetweets |-> includeRetweets,
   includeReplies |-> FALSE, keywords |-> <<>>]

\* keywords: ["Launch"]
Beta ==
  [username |-> "beta", enabled |-> TRUE, includeRetweets |-> TRUE,
   includeReplies |-> FALSE, keywords |-> << <<76, 97, 117, 110, 99, 104>> >>]

Gamma ==
  [username |-> "gamma", enabled |-> FALSE, includeRetweets |-> TRUE,
   includeReplies |-> TRUE, keywords |-> <<>>]

ConfigAcme == <<Acme(TRUE)>>

ConfigAll == <<Acme(FALSE), Gamma, Beta>>

Configs == {ConfigAcme, ConfigAll}

Tweet(id, text, isReply, isRetweet) ==
  [id |-> id, id_str |-> id, text |-> text, created_at |-> 1,
   isReply |-> isReply, retweeted_tweet |-> isRetweet]

\* "Big launch today"
P1 == Tweet(1, <<66, 105, 103, 32, 108, 97, 117, 110, 99, 104, 32,
                 116, 111, 100, 97, 121>>, FALSE, FALSE)

\* "big   launch   today"
P2 == Tweet(2, <<98, 105, 103, 32, 32, 32, 108, 97, 117, 110, 99, 104, 32, 32, 32,
                 116, 111, 100, 97, 121>>, FALSE, FALSE)

\* "Hi", a retweet
P3 == Tweet(3, <<72, 105>>, FALSE, TRUE)

\* "BIG LAUNCH TODAY"
P4 == Tweet(4, <<66, 73, 71, 32, 76, 65, 85, 78, 67, 72, 32,
                 84, 79, 68, 65, 89>>, FALSE, FALSE)

\* "Launch ", a reply
P5 == Tweet(5, <<76, 97, 117, 110, 99, 104, 32>>, TRUE, FALSE)

\* "Hi"
P6 == Tweet(6, <<72, 105>>, FALSE, FALSE)

Timeline(username) ==
  CASE username = "acme" -> {P1, P2, P3}
    [] username = "beta" -> {P4, P5, P6}
    [] OTHER -> {}

\* the lists of at most n different members of S
ListsOf(S, n) ==
  UNION {{s \in [1..k -> S] : \A i, j \in 1..k : i # j => s[i] # s[j]} : k \in 0..n}

\* what the upstream search may answer for a user: its tweets, in any order
UpstreamAnswers(username) == ListsOf(Timeline(username), MaxBatch)

\* a tweet of an earlier session, its text one CJK ideograph
OldTweet(k) == Tweet(100 + k, <<19968 + k>>, FALSE, FALSE)

\* a file written by earlier sessions: acme's history and the error list
\* filled to their caps
HistoryFile ==
  [profiles |->
     [u \in {"acme"} |->
        [lastTweetId |-> 100 + HistoryCap,
         lastUpdated |-> 1,
         tweetCount |-> 1,
         history |-> [k \in 1..HistoryCap |->
                        TweetRecord(OldTweet(HistoryCap + 1 - k), TRUE, FALSE, 1)]]],
   processedTweets |-> <<>>,
   stats |-> [totalTweetsProcessed |-> HistoryCap,
              totalSlackMessagesSent |-> HistoryCap,
              duplicateTweetsSkipped |-> 0,
              lastRun |-> 1,
              errors |-> [k \in 1..ErrorCap |->
                            [message |-> "timeout " \o ToString(k),
                             context |-> "Profile: acme",
                             timestamp |-> 1]]],
   settings |-> [createdAt |-> 1, version |-> "1.0.0"]]

\* a file that holds profiles and one processed-content entry only: it has no
\* stats and no settings key
PartialFile ==
  [profiles |-> HistoryFile.profiles,
   processedTweets |-> <<IndexEntry(OldTweet(1), "acme", 1)>>]

\* a file written by earlier sessions: the processed-content index filled to
\* its cap
IndexFile ==
  [profiles |-> <<>>,
   processedTweets |-> [k \in 1..IndexCap |-> IndexEntry(OldTweet(k), "acme", 1)],
   stats |-> [totalTweetsProcessed |-> 0,
              totalSlackMessagesSent |-> 0,
              duplicateTweetsSkipped |-> 0,
              lastRun |-> NullTime,
              errors |-> <<>>],
   settings |-> [createdAt |-> 1, version |-> "1.0.0"]]

----------------------------------------------------------------------------
(* TwitterService.fetchWithTwitterAPI: the sinceId filter on the answer *)

\* faulty variant of SinceFilter: the answer is returned as it came
NoSinceFilter(allTweets, sinceId) == allTweets

SinceFilter(allTweets, sinceId) ==
  IF sinceId # NullId /\ Len(allTweets) > 0
  THEN SelectSeq(allTweets, LAMBDA tw : tw.id > sinceId)
  ELSE allTweets

----------------------------------------------------------------------------
(* TwitterScraper *)

ZeroStats == [profilesChecked |-> 0, newTweetsFound |-> 0, messagesSent |-> 0,
              errors |-> 0]

NoProfile == [username |-> "", enabled |-> FALSE, includeRetweets |-> FALSE,
              includeReplies |-> FALSE, keywords |-> <<>>]

IsDefaultDocument(doc) == doc = DefaultData(doc.settings.createdAt)

Max(a, b) == IF a >= b THEN a ELSE b

\* no function is being applied on its own
NoArgs == [fn |-> "none"]

NoResult == [done |-> FALSE]

\* what can call scraper.run() on the running server: the cron job and the
\* POST /scrape handler
Triggers == {"cron", "post"}

\* no fetchUserTweets call in progress
NoFetch == [pc |-> "none"]

\* a new container: `let scraper = null`, no invocation in progress
NewContainer ==
  [scraper |-> "null", initDone |-> FALSE, pc |-> "idle", attempts |-> 0,
   invocations |-> 0, handler |-> "none", got |-> "none"]

\* no run() call in flight
IdleRun == [pc |-> "idle", idx |-> 0, sinceId |-> NullId, pending |-> <<>>]

\* createRateLimiter: let lastRequest = 0; no caller is in the limiter, no
\* outbound call was made, and Date.now() is far from 0
NewThrottle ==
  [lastRequest |-> 0,
   clock |-> MsPerMinute,
   callers |-> [c \in Triggers |-> [pc |-> "out", wakeAt |-> 0]],
   outbound |-> <<>>]

\* new TwitterScraper(); new DatabaseService()
InitObjects ==
  /\ throttle = NewThrottle
  /\ fetch = NoFetch
  /\ lambda = NewContainer
  /\ inflight = [t \in Triggers |-> IdleRun]
  /\ profiles = <<>>
  /\ stats = ZeroStats
  /\ pc = "new"
  /\ idx = 0
  /\ cur = NoProfile
  /\ pending = <<>>
  /\ initialized = FALSE
  /\ db = NoFile
  /\ now = 1
  /\ ticks = 0
  /\ delivered = {}
  /\ sendCalls = 0
  /\ summaries = 0
  /\ unsent = {}
  /\ runsDone = 0
  /\ runThrew = FALSE
  /\ passed = {}
  /\ failed = {}
  /\ lastBatch = <<>>
  /\ startedEmpty = FALSE
  /\ endCursor = [u \in Users |-> NullId]
  /\ lastOp = "none"
  /\ calls = 0
  /\ pruned = 0
  /\ markLog = <<>>
  /\ sincePrune = {}
  /\ keptByPrune = {}
  /\ discarded = {}
  /\ backupFile = NoFile

\* the objects, with no function being applied on its own
InitCommon ==
  /\ InitObjects
  /\ fnArgs = NoArgs
  /\ fnResult = NoResult

\* a fresh deployment: no data file yet
Init ==
  /\ InitCommon
  /\ configFile \in Configs
  /\ disk = NoFile

\* the clock advances by a day or by thirty
Tick ==
  /\ pc \in {"new", "idle"}
  /\ ticks < MaxTicks
  /\ \E d \in {1, ThirtyDays} : now' = now + d
  /\ ticks' = ticks + 1
  /\ UNCHANGED <<fnVars, scraperVars, initialized, db, disk, apiVars>>

\* faulty variant of loadProfiles: the enabled flag is not looked at
loadAllProfiles(config) == config

\* loadProfiles(): config.profiles.filter(profile => profile.enabled)
loadProfiles(config) == SelectSeq(config, LAMBDA p : p.enabled)

\* TwitterScraper.init(): loadProfiles() and dbService.init()
ScraperInit ==
  /\ pc = "new"
  /\ profiles' = loadProfiles(configFile)
  /\ db' = LoadWithDefaults(disk, now)
  /\ disk' = db'
  /\ initialized' = TRUE
  /\ pc' = "idle"
  /\ UNCHANGED <<fnVars, summaries, inflight, throttle, fetch, lambda, configFile, stats, idx, cur, pending, now, ticks, delivered,
                 sendCalls, unsent, runsDone, runThrew, passed, failed,
                 lastBatch, startedEmpty, endCursor, apiVars>>

\* faulty variant of ResetStats: the counters of the earlier run are kept
KeepStats(old) == old

\* run(): this.stats = { profilesChecked: 0, newTweetsFound: 0, ... }
ResetStats(old) == ZeroStats

\* run(): the statistics are reset and the for-loop starts
RunStart ==
  /\ pc = "idle"
  /\ runsDone < MaxRuns
  /\ ~runThrew
  /\ stats' = ResetStats(stats)
  /\ idx' = 1
  /\ pc' = "loop"
  /\ passed' = {}
  /\ failed' = {}
  /\ startedEmpty' = IsDefaultDocument(db)
  /\ endCursor' = [u \in Users |-> Max(endCursor[u], getLastTweetId(db, u))]
  /\ UNCHANGED <<fnVars, summaries, inflight, throttle, fetch, lambda, configFile, profiles, cur, pending, initialized, db, disk, now,
                 ticks, delivered, sendCalls, unsent, runsDone, runThrew,
                 lastBatch, apiVars>>

\* faulty variant of RunCatch: the error leaves run()
RunRethrow(i) == [next |-> i, threw |-> TRUE]

\* run(): the catch block around processProfile swallows the error and the
\* for-loop goes on with the next profile
RunCatch(i) == [next |-> i + 1, threw |-> FALSE]

\* processProfile(profile) throws: fetchUserTweets rethrows what the Apify
\* client throws
ProcessProfileThrows ==
  /\ pc = "loop"
  /\ idx <= Len(profiles)
  /\ passed' = passed \cup {idx}
  /\ failed' = failed \cup {idx}
  /\ stats' = [stats EXCEPT !.errors = @ + 1]
  /\ LET r == RunCatch(idx)
     IN  /\ idx' = r.next
         /\ runThrew' = r.threw
         /\ pc' = IF r.threw THEN "idle" ELSE "loop"
  /\ UNCHANGED <<fnVars, summaries, inflight, throttle, fetch, lambda, configFile, profiles, cur, pending, initialized, db, disk, now,
                 ticks, delivered, sendCalls, unsent, runsDone, lastBatch,
                 startedEmpty, endCursor, apiVars>>

\* processProfile(profile) up to the per-tweet loop: the cursor is read, the
\* tweets are fetched and filtered
ProcessProfileFetch ==
  /\ pc = "loop"
  /\ idx <= Len(profiles)
  /\ \E answer \in UpstreamAnswers(profiles[idx].username) :
       LET profile == profiles[idx]
           lastTweetId == getLastTweetId(db, profile.username)
           tweets == SinceFilter(answer, lastTweetId)
           filteredTweets == SelectSeq(tweets, LAMBDA tw : shouldIncludeTweet(tw, profile))
       IN  /\ lastBatch' = tweets
           /\ passed' = passed \cup {idx}
           /\ IF Len(filteredTweets) = 0
              THEN /\ stats' = [stats EXCEPT !.profilesChecked = @ + 1]
                   /\ idx' = idx + 1
                   /\ UNCHANGED <<pc, cur, pending>>
              ELSE /\ pc' = "tweets"
                   /\ cur' = profile
                   /\ pending' = filteredTweets
                   /\ UNCHANGED <<stats, idx>>
  /\ UNCHANGED <<fnVars, summaries, inflight, throttle, fetch, lambda, configFile, profiles, initialized, db, disk, now, ticks,
                 delivered, sendCalls, unsent, runsDone, runThrew, failed,
                 startedEmpty, endCursor, apiVars>>

\* the datastore calls of one pass of the per-tweet loop
StoreTweet(doc, username, tweet, sent, t) ==
  setLastTweetId(recordTweet(doc, username, tweet, sent, FALSE, t),
                 username, tweet.id_str, t)

\* processProfile: one pass of the per-tweet loop; after the last tweet
\* processProfile returns and run() counts the profile
HandleTweet ==
  /\ pc = "tweets"
  /\ pending # <<>>
  /\ \E sent \in BOOLEAN :
       LET tweet == Head(pending)
       IN  /\ delivered' = delivered \cup {tweet}
           /\ sendCalls' = sendCalls + 1
           /\ unsent' = IF sent THEN unsent ELSE unsent \cup {tweet}
           /\ db' = StoreTweet(db, cur.username, tweet, sent, now)
           /\ disk' = db'
           /\ pending' = Tail(pending)
           /\ IF Tail(pending) = <<>>
              THEN /\ stats' = [stats EXCEPT
                                  !.messagesSent = IF sent THEN @ + 1 ELSE @,
                                  !.newTweetsFound = @ + 1,
                                  !.profilesChecked = @ + 1]
                   /\ idx' = idx + 1
                   /\ pc' = "loop"
                   /\ cur' = NoProfile
              ELSE /\ stats' = [stats EXCEPT
                                  !.messagesSent = IF sent THEN @ + 1 ELSE @,
                                  !.newTweetsFound = @ + 1]
                   /\ UNCHANGED <<idx, pc, cur>>
  /\ UNCHANGED <<fnVars, summaries, inflight, throttle, fetch, lambda, configFile, profiles, initialized, now, ticks, runsDone,
                 runThrew, passed, failed, lastBatch, startedEmpty, endCursor,
                 apiVars>>

\* faulty variant of SummaryCatch: an error of slackService.sendSummary leaves
\* sendSummary(), and with it run()
SummaryRethrow(outcome) == [threw |-> outcome = "threw"]

\* sendSummary(): the catch block swallows what slackService.sendSummary throws
SummaryCatch(outcome) == [threw |-> FALSE]

\* run(): after the for-loop the summary is sent (best effort: the call returns
\* true or false, or throws) and run returns
SendSummary ==
  /\ pc = "loop"
  /\ idx > Len(profiles)
  /\ summaries' = summaries + 1
  /\ \E outcome \in {"sent", "failed", "threw"} :
       runThrew' = SummaryCatch(outcome).threw
  /\ pc' = "idle"
  /\ runsDone' = runsDone + 1
  /\ UNCHANGED <<fnVars, inflight, throttle, fetch, lambda, configFile, profiles, stats, idx, cur, pending,
                 initialized, db, disk, now, ticks, delivered, sendCalls, unsent,
                 passed, failed, lastBatch, startedEmpty, endCursor, apiVars>>

Next ==
  \/ Tick
  \/ ScraperInit
  \/ RunStart
  \/ ProcessProfileThrows
  \/ ProcessProfileFetch
  \/ HandleTweet
  \/ SendSummary

Spec == Init /\ [][Next]_vars

\* processProfile: one pass of the per-tweet loop in which the datastore cannot
\* write its file.  recordTweet has put the record into the in-memory history
\* when write() throws; the catch block of the loop calls recordTweet again,
\* which throws again, out of processProfile and into the catch block of run()
HandleTweetThrows ==
  /\ pc = "tweets"
  /\ pending # <<>>
  /\ \E sent \in BOOLEAN :
       LET tweet == Head(pending)
       IN  /\ delivered' = delivered \cup {tweet}
           /\ sendCalls' = sendCalls + 1
           /\ unsent' = IF sent THEN unsent ELSE unsent \cup {tweet}
           /\ db' = RecordInHistory(
                      RecordInHistory(db, cur.username,
                                      TweetRecord(tweet, sent, FALSE, now)),
                      cur.username, TweetRecord(tweet, FALSE, FALSE, now))
           /\ stats' = [stats EXCEPT
                          !.messagesSent = IF sent THEN @ + 1 ELSE @,
                          !.errors = @ + 1]
  /\ failed' = failed \cup {idx}
  /\ LET r == RunCatch(idx)
     IN  /\ idx' = r.next
         /\ runThrew' = r.threw
         /\ pc' = IF r.threw THEN "idle" ELSE "loop"
  /\ pending' = <<>>
  /\ cur' = NoProfile
  /\ UNCHANGED <<fnVars, summaries, inflight, throttle, fetch, lambda, configFile, profiles, initialized, disk, now,
                 ticks, runsDone, passed, lastBatch, startedEmpty, endCursor,
                 apiVars>>

\* the steps of a run() call in progress
RunStep ==
  \/ ProcessProfileThrows
  \/ ProcessProfileFetch
  \/ HandleTweet
  \/ HandleTweetThrows
  \/ SendSummary

\* a deployment with two enabled profiles and a disabled one
InitFaulty ==
  /\ InitCommon
  /\ configFile = ConfigAll
  /\ disk = NoFile

\* run() is called, MaxFaultyRuns times at most
RunStartFaulty ==
  /\ runsDone < MaxFaultyRuns
  /\ RunStart

\* the engine over a disk that may refuse a write
NextFaulty == ScraperInit \/ RunStartFaulty \/ RunStep

\* an async run() in progress is resumed by the event loop: every awaited call
\* (fetch, delivery, summary) settles
SpecFaulty == InitFaulty /\ [][NextFaulty]_vars /\ WF_vars(RunStep)

----------------------------------------------------------------------------
(* The DatabaseService called directly, as the test suite and the server's *)
(* maintenance endpoints do                                                *)

ApiTweets == {P1, P2, P6}

Keys(index) == {index[i].hash : i \in 1..Len(index)}

\* the cleaned texts of the entries of the index
Texts(index) == {CleanText(index[i].content) : i \in 1..Len(index)}

\* a process that only uses the datastore, over a file of earlier sessions
InitProfiles ==
  /\ InitCommon
  /\ configFile = ConfigAcme
  /\ disk \in {NoFile, HistoryFile}

InitIndex ==
  /\ InitCommon
  /\ configFile = ConfigAcme
  /\ disk \in {NoFile, IndexFile}

\* direct calls are explored up to a budget: MaxMarks next to the engine,
\* MaxCalls in a process that only uses the datastore
CanCall ==
  /\ initialized
  /\ pc \in {"new", "idle"}
  /\ calls < (IF pc = "idle" THEN MaxMarks ELSE MaxCalls)

\* dbService.init()
DbInit ==
  /\ pc = "new"
  /\ db' = LoadWithDefaults(disk, now)
  /\ disk' = db'
  /\ initialized' = TRUE
  /\ sincePrune' = IF initialized THEN sincePrune ELSE Keys(db'.processedTweets)
  /\ UNCHANGED <<fnVars, discarded, backupFile, scraperVars, now, ticks, lastOp, calls, pruned, markLog,
                 keptByPrune>>

ApiMarkContentAsProcessed ==
  /\ CanCall
  /\ \E tweet \in ApiTweets, username \in Users :
       /\ db' = markContentAsProcessed(db, tweet, username, now)
       /\ markLog' = Append(markLog, [tweet |-> tweet, username |-> username])
       /\ sincePrune' = sincePrune \cup {generateContentHash(tweet)}
       /\ discarded' = discarded \ {CleanText(tweet.text)}
  /\ disk' = db'
  /\ lastOp' = "markContentAsProcessed"
  /\ calls' = calls + 1
  /\ pruned' = 0
  /\ UNCHANGED <<fnVars, backupFile, scraperVars, initialized, now, ticks,
                 keptByPrune>>

\* the arguments of the call are kept in fnArgs
ApiRecordTweet ==
  /\ CanCall
  /\ \E username \in Users, tweet \in {P1, P6}, sent \in BOOLEAN, dup \in BOOLEAN :
       /\ db' = recordTweet(db, username, tweet, sent, dup, now)
       /\ fnArgs' = [fn |-> "recordTweet", username |-> username,
                     tweet |-> tweet, sent |-> sent, dup |-> dup]
  /\ disk' = db'
  /\ lastOp' = "recordTweet"
  /\ calls' = calls + 1
  /\ pruned' = 0
  /\ UNCHANGED <<fnResult, discarded, backupFile, scraperVars, initialized, now, ticks, markLog, sincePrune,
                 keptByPrune>>

\* the arguments of the call are kept in fnArgs
ApiSetLastTweetId ==
  /\ CanCall
  /\ \E username \in Users, tweet \in {P1, P6} :
       /\ db' = setLastTweetId(db, username, tweet.id_str, now)
       /\ fnArgs' = [fn |-> "setLastTweetId", username |-> username,
                     tweetId |-> tweet.id_str]
  /\ disk' = db'
  /\ lastOp' = "setLastTweetId"
  /\ calls' = calls + 1
  /\ pruned' = 0
  /\ UNCHANGED <<fnResult, discarded, backupFile, scraperVars, initialized, now, ticks, markLog, sincePrune,
                 keptByPrune>>

ApiRecordError ==
  /\ CanCall
  /\ db' = recordError(db, "boom", "", now)
  /\ disk' = db'
  /\ lastOp' = "recordError"
  /\ calls' = calls + 1
  /\ pruned' = 0
  /\ UNCHANGED <<fnVars, discarded, backupFile, scraperVars, initialized, now, ticks, markLog, sincePrune,
                 keptByPrune>>

ApiCleanup ==
  /\ CanCall
  /\ db' = cleanup(db, now)
  /\ disk' = db'
  /\ lastOp' = "cleanup"
  /\ calls' = calls + 1
  /\ pruned' = Len(db.processedTweets) - Len(db'.processedTweets)
  /\ IF Len(db.processedTweets) > IndexCap
     THEN /\ keptByPrune' = Keys(db'.processedTweets)
          /\ sincePrune' = {}
          /\ discarded' = discarded \cup (Texts(db.processedTweets)
                                            \ Texts(db'.processedTweets))
     ELSE UNCHANGED <<keptByPrune, sincePrune, discarded>>
  /\ UNCHANGED <<fnVars, backupFile, scraperVars, initialized, now, ticks,
                 markLog>>

ApiBackup ==
  /\ CanCall
  /\ backupFile' = backup(db)
  /\ lastOp' = "backup"
  /\ calls' = calls + 1
  /\ pruned' = 0
  /\ UNCHANGED <<fnVars, discarded, scraperVars, initialized, db, disk, now,
                 ticks, markLog, sincePrune, keptByPrune>>

\* the engine, with markContentAsProcessed called on the same store between runs
NextMarked == Next \/ ApiMarkContentAsProcessed

SpecMarked == Init /\ [][NextMarked]_vars

\* any sequence of recordTweet, setLastTweetId, recordError and cleanup calls
NextProfiles ==
  \/ Tick
  \/ DbInit
  \/ ApiRecordTweet
  \/ ApiSetLastTweetId
  \/ ApiRecordError
  \/ ApiCleanup

SpecProfiles == InitProfiles /\ [][NextProfiles]_vars

\* any sequence of markContentAsProcessed and cleanup calls
NextIndex ==
  \/ Tick
  \/ DbInit
  \/ ApiMarkContentAsProcessed
  \/ ApiCleanup

SpecIndex == InitIndex /\ [][NextIndex]_vars

\* a process that only uses the datastore, with every method that writes
InitStore ==
  /\ InitCommon
  /\ configFile = ConfigAcme
  /\ disk \in {NoFile, HistoryFile, PartialFile}

CanCallStore == calls < MaxStoreCalls

\* any sequence of calls of the methods that write, and of backup
NextStore ==
  \/ Tick
  \/ DbInit
  \/ CanCallStore /\ ApiRecordTweet
  \/ CanCallStore /\ ApiSetLastTweetId
  \/ CanCallStore /\ ApiMarkContentAsProcessed
  \/ CanCallStore /\ ApiRecordError
  \/ CanCallStore /\ ApiCleanup
  \/ CanCallStore /\ ApiBackup

SpecStore == InitStore /\ [][NextStore]_vars

----------------------------------------------------------------------------
(* Properties of the run loop *)

\* the tweets of a user that were passed to slackService.sendTweet
DeliveredOf(username) == {tw \in delivered : tw \in Timeline(username)}

MaxId(tweets) == CHOOSE n \in {tw.id_str : tw \in tweets} : \A tw \in tweets : tw.id_str <= n

\* C1: of two fetched tweets with different ids and the same cleaned text
\* (whitespace runs collapsed, trimmed, lower-cased), at most one is ever
\* passed to slackService.sendTweet.
C1_AtMostOnceRelay ==
  \A p, q \in delivered :
    p.id_str # q.id_str => CleanText(p.text) # CleanText(q.text)

\* C2: from an empty store, with acme the only profile (enabled, no keywords,
\* no cursor) and a fetch answering tweet 1 "Big launch today" then tweet 2
\* "big   launch   today", one run ends with tweet 1 passed to delivery, tweet 2
\* not, the persisted duplicate counter at 1 and acme's cursor at 2.
C2_Scenario ==
  (/\ pc = "idle"
   /\ runsDone = 1
   /\ configFile = ConfigAcme
   /\ startedEmpty
   /\ lastBatch = <<P1, P2>>)
  => /\ P1 \in delivered
     /\ P2 \notin delivered
     /\ disk.stats.duplicateTweetsSkipped = 1
     /\ getLastTweetId(disk, "acme") = 2

\* C3: when the fingerprint of the filtered tweet the loop is at is already in
\* the processed-content index, that pass of the loop makes no delivery call,
\* adds one to the persisted duplicate counter, puts a history record flagged
\* is_duplicate on top of the profile's history and leaves the profile's cursor
\* as it was.
C3_DuplicateStep ==
  [][(/\ pc = "tweets"
      /\ pending # <<>>
      /\ pending' = Tail(pending)
      /\ isDuplicateContent(db, Head(pending)))
     => /\ sendCalls' = sendCalls
        /\ disk'.stats.duplicateTweetsSkipped = disk.stats.duplicateTweetsSkipped + 1
        /\ HistoryOf(disk', cur.username) # <<>>
        /\ Head(HistoryOf(disk', cur.username)).id = Head(pending).id_str
        /\ Head(HistoryOf(disk', cur.username)).is_duplicate
        /\ getLastTweetId(disk', cur.username) = getLastTweetId(disk, cur.username)]_vars

\* C4: when sendTweet returns false for a tweet, after that pass of the loop the
\* tweet's fingerprint is in the processed-content index and the profile's
\* history holds its record with sent_to_slack = false; and no tweet whose
\* cleaned text had a failed delivery before is passed to delivery again.
C4_NoRetryAfterFailure ==
  [][sendCalls' = sendCalls + 1
     => /\ CleanText(Head(pending).text)
             \notin {CleanText(tw.text) : tw \in unsent}
        /\ stats'.messagesSent = stats.messagesSent
           => /\ isDuplicateContent(disk', Head(pending))
              /\ \E i \in 1..Len(HistoryOf(disk', cur.username)) :
                   /\ HistoryOf(disk', cur.username)[i].id = Head(pending).id_str
                   /\ ~HistoryOf(disk', cur.username)[i].sent_to_slack]_vars

\* C5: within one run, when processProfile throws for a profile, every profile
\* after it in scraper.profiles is still passed to processProfile in that run,
\* and run itself does not throw.
C5_FailureIsolation ==
  /\ ~runThrew
  /\ (pc = "idle" /\ runsDone > 0)
       => \A i \in failed : \A j \in (i + 1)..Len(profiles) : j \in passed

C5_Witness ==
  /\ pc = "idle"
  /\ runsDone > 0
  /\ Len(profiles) = 2
  /\ 1 \in failed
  /\ 2 \in passed
  /\ 2 \notin failed

\* C6: with every fetch handing over only tweets whose id is greater than the
\* stored cursor, whatever the order of the batch, the cursor a profile has when
\* a run has ended is never smaller than the cursor it had at the end of an
\* earlier run.
C6_CursorMonotone ==
  (pc = "idle" /\ initialized)
    => \A u \in Users : getLastTweetId(disk, u) >= endCursor[u]

\* a second run over a batch listed newest first moved the cursor forward
C6_Witness ==
  /\ pc = "idle"
  /\ runsDone = 2
  /\ configFile = ConfigAcme
  /\ lastBatch = <<P3, P2>>
  /\ endCursor["acme"] = 1
  /\ getLastTweetId(disk, "acme") = 2

\* C7: whenever processProfile has finished a batch, the profile's stored cursor
\* is the greatest id among the tweets of that profile passed to delivery so
\* far, whatever the order of the batch.
C7_CursorHighWater ==
  (pc \in {"loop", "idle"} /\ initialized)
    => \A u \in Users :
         DeliveredOf(u) # {} => getLastTweetId(disk, u) = MaxId(DeliveredOf(u))

----------------------------------------------------------------------------
(* Properties of the datastore *)

\* most recently recorded first
NewestFirst(history) ==
  \A i \in 1..(Len(history) - 1) :
    history[i].processed_at >= history[i + 1].processed_at

\* C8: after any sequence of recordTweet, setLastTweetId, cleanup and
\* recordError calls every profile's persisted history has at most 100 entries,
\* most recently recorded first; and a recordTweet call on a history of 100
\* entries puts the new record on top and drops the last, oldest, entry.
C8_HistoryBound ==
  [][initialized'
     => \A u \in DOMAIN disk'.profiles :
          LET before == HistoryOf(disk, u)
              after == HistoryOf(disk', u)
          IN  /\ Len(after) <= HistoryCap
              /\ NewestFirst(after)
              /\ (/\ initialized
                  /\ lastOp' = "recordTweet"
                  /\ calls' = calls + 1
                  /\ Len(before) = HistoryCap
                  /\ after # before)
                 => /\ Len(after) = HistoryCap
                    /\ Head(after).processed_at = now
                    /\ Tail(after) = SubSeq(before, 1, HistoryCap - 1)
                    /\ \A i \in 1..HistoryCap :
                         before[HistoryCap].processed_at
                           <= before[i].processed_at]_vars

\* a record was put on top of a full history and the oldest entry is gone
C8_Witness ==
  /\ initialized
  /\ lastOp = "recordTweet"
  /\ Len(HistoryOf(disk, "acme")) = HistoryCap
  /\ HistoryOf(disk, "acme")[1].id = P1.id_str
  /\ HistoryOf(disk, "acme")[HistoryCap].id = OldTweet(2).id_str

Entries(index) == {index[i] : i \in 1..Len(index)}

\* C9: right after cleanup() the persisted index has at most 1000 entries; if it
\* had more than 1000 before, exactly 1000 of them remain and each entry kept
\* has a processedAt no earlier than that of each entry discarded; if it had
\* 1000 or fewer, it is unchanged.
C9_IndexBound ==
  [][(lastOp' = "cleanup" /\ calls' = calls + 1)
     => LET old == disk.processedTweets
            new == disk'.processedTweets
        IN  /\ Len(new) <= IndexCap
            /\ Len(old) > IndexCap
                 => /\ Len(new) = IndexCap
                    /\ Cardinality(Entries(new)) = IndexCap
                    /\ Entries(new) \subseteq Entries(old)
                    /\ \A d \in Entries(old) \ Entries(new) :
                         \A k \in 1..Len(new) : new[k].processedAt >= d.processedAt
            /\ Len(old) <= IndexCap => new = old]_vars

\* cleanup() discarded an older entry and kept one marked at a later day
C9_Witness ==
  /\ lastOp = "cleanup"
  /\ pruned > 0
  /\ Len(disk.processedTweets) = IndexCap
  /\ \E k \in 1..IndexCap : disk.processedTweets[k].processedAt > 1

\* entries of the index with the cleaned text of a tweet
EntriesFor(index, tweet) ==
  {i \in 1..Len(index) : CleanText(index[i].content) = CleanText(tweet.text)}

\* as many cleaned texts as entries: no two entries have the same cleaned text
NoTwoEntriesOfOneText(index) ==
  Cardinality({CleanText(index[i].content) : i \in 1..Len(index)}) = Len(index)

\* C10, as stated: no two entries of the index have the same cleaned text, and
\* the number of entries equals the number of distinct fingerprints marked since
\* the index was last pruned.
C10_CountSinceLastPruning ==
  initialized
    => /\ NoTwoEntriesOfOneText(disk.processedTweets)
       /\ Len(disk.processedTweets) = Cardinality(sincePrune)

\* C10, amended: no two entries of the index have the same cleaned text, however
\* often a text is marked and under whatever id and username; and the number of
\* entries equals the number of distinct fingerprints that the last pruning kept
\* or that were marked since (with no pruning so far: that were ever marked).
C10_DedupIdempotence ==
  initialized
    => /\ NoTwoEntriesOfOneText(disk.processedTweets)
       /\ Len(disk.processedTweets) = Cardinality(keptByPrune \cup sincePrune)

\* the same text was marked twice, under two ids and two usernames
C10_Witness ==
  /\ Len(markLog) = 2
  /\ markLog[1].tweet = P1
  /\ markLog[2].tweet = P2
  /\ markLog[1].username # markLog[2].username
  /\ Cardinality(EntriesFor(disk.processedTweets, P1)) = 1
  /\ disk.processedTweets[Len(disk.processedTweets)].tweetId = P2.id_str

\* the tweet of the last direct markContentAsProcessed call
LastMarked(log) == log[Len(log)].tweet

\* C11: a markContentAsProcessed call for a tweet whose cleaned text already
\* has an entry is a no-op: the index, and with it the entry's tweetId,
\* username, processedAt and content, stays as it was.
C11_WriteOnce ==
  [][(/\ lastOp' = "markContentAsProcessed"
      /\ calls' = calls + 1
      /\ isDuplicateContent(disk, LastMarked(markLog')))
     => disk'.processedTweets = disk.processedTweets]_vars

\* some direct markContentAsProcessed call was for a tweet of the same cleaned text
Marked(p) ==
  \E i \in 1..Len(markLog) : CleanText(markLog[i].tweet.text) = CleanText(p.text)

\* C12: isDuplicateContent(p) is true if and only if markContentAsProcessed was
\* called earlier for a tweet with the cleaned text of p and cleanup() has not
\* discarded that entry since; so it is false for a text never marked and true
\* for a tweet of another id with the text of a marked one.
C12_DuplicateDetection ==
  initialized
    => \A p \in ApiTweets \cup {P4} :
         isDuplicateContent(disk, p)
           <=> (Marked(p) /\ CleanText(p.text) \notin discarded)

\* tweet 1 was marked: tweets 2 and 4, of the same cleaned text, are duplicates
\* and tweet 6 is not
C12_Witness ==
  /\ initialized
  /\ Len(markLog) = 1
  /\ LastMarked(markLog) = P1
  /\ isDuplicateContent(disk, P2)
  /\ isDuplicateContent(disk, P4)
  /\ ~isDuplicateContent(disk, P6)

\* tweet 1 was marked and cleanup() discarded its entry: no duplicate any more
C12_WitnessPruned ==
  /\ initialized
  /\ Len(markLog) = 1
  /\ LastMarked(markLog) = P1
  /\ CleanText(P1.text) \in discarded
  /\ ~isDuplicateContent(disk, P2)

----------------------------------------------------------------------------
(* generateContentHash applied to two tweets *)

\* the texts of at most MaxText characters over a space, "A" and "a"
HashTexts == UNION {[1..n -> {32, 65, 97}] : n \in 0..MaxText}

objVars == <<scraperVars, apiVars, initialized, db, disk, now, ticks>>

\* two tweets of different id and creation time, of any two texts
InitHash ==
  /\ InitObjects
  /\ configFile = ConfigAcme
  /\ disk = NoFile
  /\ \E t1, t2 \in HashTexts :
       fnArgs = [fn |-> "generateContentHash",
                 tweet1 |-> Tweet(1, t1, FALSE, FALSE),
                 tweet2 |-> [Tweet(2, t2, FALSE, FALSE) EXCEPT !.created_at = 2]]
  /\ fnResult = NoResult

CallGenerateContentHash ==
  /\ fnArgs.fn = "generateContentHash"
  /\ ~fnResult.done
  /\ fnResult' = [done |-> TRUE,
                  hash1 |-> generateContentHash(fnArgs.tweet1),
                  hash2 |-> generateContentHash(fnArgs.tweet2)]
  /\ UNCHANGED <<objVars, fnArgs>>

SpecHash == InitHash /\ [][CallGenerateContentHash]_vars

\* the words of a text, lower-cased: its maximal runs of non-whitespace
RECURSIVE WordsOf(_, _)
WordsOf(s, word) ==
  IF s = <<>>
  THEN IF word = <<>> THEN <<>> ELSE <<word>>
  ELSE IF IsSpace(Head(s))
       THEN (IF word = <<>> THEN <<>> ELSE <<word>>) \o WordsOf(Tail(s), <<>>)
       ELSE WordsOf(Tail(s), Append(word, ToLowerChar(Head(s))))

StartsWithSpace(s) == s # <<>> /\ IsSpace(s[1])

EndsWithSpace(s) == s # <<>> /\ IsSpace(s[Len(s)])

\* t2 is t1 but for the length of its whitespace runs and the case of its letters
DiffersInRunsOrCase(t1, t2) ==
  /\ WordsOf(t1, <<>>) = WordsOf(t2, <<>>)
  /\ StartsWithSpace(t1) <=> StartsWithSpace(t2)
  /\ EndsWithSpace(t1) <=> EndsWithSpace(t2)

\* C13: two tweets whose texts differ only in the length of whitespace runs or
\* in letter case get the same fingerprint, whatever their ids and creation
\* times; two tweets whose cleaned texts differ get different fingerprints.
C13_FingerprintStability ==
  fnResult.done
    => /\ DiffersInRunsOrCase(fnArgs.tweet1.text, fnArgs.tweet2.text)
            => fnResult.hash1 = fnResult.hash2
       /\ CleanText(fnArgs.tweet1.text) # CleanText(fnArgs.tweet2.text)
            => fnResult.hash1 # fnResult.hash2

\* "A a" and "a  A" were hashed, to the same fingerprint
C13_Witness ==
  /\ fnResult.done
  /\ fnArgs.tweet1.text = <<65, 32, 97>>
  /\ fnArgs.tweet2.text = <<97, 32, 32, 65>>
  /\ fnResult.hash1 = fnResult.hash2

----------------------------------------------------------------------------
(* The initialized guard of the DatabaseService methods *)

NoError == ""

NotInitialized == "Database not initialized"

\* faulty variant of Guarded: no guard, the method dereferences this.db = null
Unguarded(isInitialized, doc, newDoc) ==
  IF isInitialized
  THEN [threw |-> NoError, doc |-> newDoc]
  ELSE [threw |-> "TypeError: Cannot read properties of null", doc |-> doc]

\* if (!this.initialized) throw new Error('Database not initialized')
Guarded(isInitialized, doc, newDoc) ==
  IF isInitialized
  THEN [threw |-> NoError, doc |-> newDoc]
  ELSE [threw |-> NotInitialized, doc |-> doc]

\* the methods that start with the guard; the last six write nothing
GuardedMethods ==
  {"isDuplicateContent", "markContentAsProcessed", "getLastTweetId",
   "setLastTweetId", "recordTweet", "recordError", "getStats",
   "getProfileStats", "getAllProfiles", "cleanup", "backup"}

\* faulty variant of Invoke: isDuplicateContent marks the content it tests
InvokeTestAndSet(isInitialized, doc, call, t) ==
  Guarded(isInitialized, doc,
          IF call.fn = "isDuplicateContent"
          THEN markContentAsProcessed(doc, call.tweet, call.username, t)
          ELSE doc)

\* a call of a method: the in-memory document it leaves and what it threw
Invoke(isInitialized, doc, call, t) ==
  Guarded(isInitialized, doc,
          CASE call.fn = "markContentAsProcessed"
                 -> markContentAsProcessed(doc, call.tweet, call.username, t)
            [] call.fn = "setLastTweetId"
                 -> setLastTweetId(doc, call.username, call.tweet.id_str, t)
            [] call.fn = "recordTweet"
                 -> recordTweet(doc, call.username, call.tweet, call.sent,
                                call.dup, t)
            [] call.fn = "recordError" -> recordError(doc, "boom", "", t)
            [] call.fn = "cleanup" -> cleanup(doc, t)
            [] OTHER -> doc)

\* the calls explored: every method, with the arguments it reads
MethodCalls ==
  {[fn |-> f, username |-> u, tweet |-> tw, sent |-> s, dup |-> d] :
     f \in {"recordTweet"}, u \in Users, tw \in {P1, P6},
     s \in BOOLEAN, d \in BOOLEAN}
  \cup
  {[fn |-> f, username |-> u, tweet |-> tw, sent |-> FALSE, dup |-> FALSE] :
     f \in {"markContentAsProcessed", "setLastTweetId"}, u \in Users,
     tw \in {P1, P6}}
  \cup
  {[fn |-> f, username |-> "acme", tweet |-> tw, sent |-> FALSE, dup |-> FALSE] :
     f \in {"isDuplicateContent"}, tw \in {P1, P6}}
  \cup
  {[fn |-> f, username |-> u, tweet |-> P1, sent |-> FALSE, dup |-> FALSE] :
     f \in {"getLastTweetId", "getProfileStats"}, u \in Users}
  \cup
  {[fn |-> f, username |-> "acme", tweet |-> P1, sent |-> FALSE, dup |-> FALSE] :
     f \in {"recordError", "getStats", "getAllProfiles", "cleanup", "backup"}}

\* a new DatabaseService over an absent or an existing file, and a call to make
InitGuard ==
  /\ InitObjects
  /\ configFile = ConfigAcme
  /\ disk \in {NoFile, HistoryFile, IndexFile}
  /\ fnArgs \in MethodCalls
  /\ fnResult = NoResult

\* the call is made, before or after dbService.init()
CallMethod ==
  /\ fnArgs.fn \in GuardedMethods
  /\ ~fnResult.done
  /\ LET r == Invoke(initialized, db, fnArgs, now)
     IN  /\ fnResult' = [done |-> TRUE, threw |-> r.threw,
                         wasInitialized |-> initialized, diskBefore |-> disk]
         /\ db' = r.doc
         /\ disk' = IF r.threw = NoError THEN r.doc ELSE disk
         /\ backupFile' = IF r.threw = NoError /\ fnArgs.fn = "backup"
                           THEN backup(db) ELSE backupFile
  /\ UNCHANGED <<scraperVars, lastOp, calls, pruned, markLog, sincePrune,
                 keptByPrune, discarded, initialized, now, ticks, fnArgs>>

NextGuard == DbInit \/ CallMethod

SpecGuard == InitGuard /\ [][NextGuard]_vars

\* C14: each of isDuplicateContent, markContentAsProcessed, getLastTweetId,
\* setLastTweetId, recordTweet, recordError, getStats, getProfileStats,
\* getAllProfiles, cleanup and backup, called before init() has completed,
\* throws 'Database not initialized' and leaves the persisted file as it was.
C14_UninitializedGuard ==
  [][(~fnResult.done /\ fnResult'.done /\ ~initialized)
     => /\ fnResult'.threw = NotInitialized
        /\ disk' = disk
        /\ db' = db]_vars

\* recordTweet was called before init() over a stored file
C14_Witness ==
  /\ fnResult.done
  /\ ~fnResult.wasInitialized
  /\ ~initialized
  /\ fnResult.threw = NotInitialized
  /\ fnArgs.fn = "recordTweet"
  /\ fnResult.diskBefore = HistoryFile
  /\ disk = HistoryFile

\* the same call after init() goes through and is persisted
C14_WitnessInitialized ==
  /\ fnResult.done
  /\ fnResult.wasInitialized
  /\ fnArgs.fn = "recordTweet"
  /\ fnResult.threw = NoError
  /\ disk # fnResult.diskBefore

----------------------------------------------------------------------------
(* Properties of run() *)

C16_RunScopedStats ==
  /\ [](pc = "new" => stats = ZeroStats)
  /\ [][/\ (pc = "idle" /\ pc' = "loop") => stats' = ZeroStats
        /\ (pc \in {"loop", "tweets"})
             => /\ stats'.newTweetsFound - stats.newTweetsFound
                     = sendCalls' - sendCalls
                /\ stats'.messagesSent - stats.messagesSent
                     \in {0, sendCalls' - sendCalls}
                /\ stats'.errors - stats.errors
                     = Cardinality(failed') - Cardinality(failed)]_vars
  /\ []((pc = "idle" /\ runsDone > 0)
          => /\ stats.errors = Cardinality(failed)
             /\ stats.profilesChecked = Cardinality(passed \ failed)
             /\ stats.profilesChecked + stats.errors = Len(profiles))

\* the first run handled two tweets, the second one: its counters show one
C16_Witness ==
  /\ pc = "idle"
  /\ runsDone = 2
  /\ sendCalls = 3
  /\ stats.newTweetsFound = 1
  /\ stats.profilesChecked = 1

\* ps lists, in the order of config, the entries of config that are enabled
IsEnabledSublist(ps, config) ==
  \E f \in [1..Len(ps) -> 1..Len(config)] :
    /\ \A i, j \in 1..Len(ps) : i < j => f[i] < f[j]
    /\ \A i \in 1..Len(ps) : ps[i] = config[f[i]]
    /\ \A k \in 1..Len(config) :
         config[k].enabled <=> \E i \in 1..Len(ps) : f[i] = k

\* C17: after loadProfiles, scraper.profiles is the list of the configured
\* profiles that are enabled, in configuration order; a run passes each of them
\* to processProfile once (every call ends counted in profilesChecked or in
\* errors) and never processes a disabled profile.
C17_OnlyEnabledProfiles ==
  pc # "new"
    => /\ IsEnabledSublist(profiles, configFile)
       /\ cur = NoProfile \/ cur.enabled
       /\ (pc = "idle" /\ runsDone > 0)
            => /\ passed = 1..Len(profiles)
               /\ stats.profilesChecked + stats.errors = Len(profiles)

\* with acme, gamma (disabled) and beta configured, a run went over acme and beta
C17_Witness ==
  /\ pc = "idle"
  /\ runsDone = 1
  /\ configFile = ConfigAll
  /\ Len(profiles) = 2
  /\ profiles[1].username = "acme"
  /\ profiles[2].username = "beta"
  /\ passed = {1, 2}

----------------------------------------------------------------------------
(* The running server: PUT /api/profiles next to the scraper *)

\* updateProfiles: the request's profiles are written to src/config/profiles.json
UpdateProfiles ==
  /\ pc = "idle"
  /\ \E config \in Configs \ {configFile} : configFile' = config
  /\ UNCHANGED <<fnVars, apiVars, profiles, stats, pc, idx, cur, pending,
                 initialized, db, disk, now, ticks, delivered, sendCalls,
                 summaries, inflight, throttle, fetch, lambda, unsent, runsDone, runThrew, passed, failed,
                 lastBatch, startedEmpty, endCursor>>

NextServer == Next \/ UpdateProfiles

SpecServer == Init /\ [][NextServer]_vars

\* C18: after the profiles file is updated through PUT /api/profiles, the next
\* run on the running server iterates the enabled profiles of the updated
\* file: while a run is in progress scraper.profiles is the list of the
\* enabled profiles of the file as it was when the run started.
C18_ConfigTakesEffect ==
  [][(pc = "idle" /\ pc' = "loop") => IsEnabledSublist(profiles', configFile)]_vars

----------------------------------------------------------------------------
(* shouldIncludeTweet applied on its own *)

\* texts over "A", "a", "b"
FilterTexts == UNION {[1..n -> {65, 97, 98}] : n \in 0..MaxText}

\* keyword lists: [], ["a"], ["A"], ["ab"], ["B", "aa"], ["bA"], [""]
KeywordLists ==
  {<<>>, << <<97>> >>, << <<65>> >>, << <<97, 98>> >>,
   << <<66>>, <<97, 97>> >>, << <<98, 65>> >>, << <<>> >>}

FilterProfiles ==
  {[username |-> "acme", enabled |-> TRUE, includeRetweets |-> rt,
    includeReplies |-> rp, keywords |-> kws] :
     rt \in BOOLEAN, rp \in BOOLEAN, kws \in KeywordLists}
  \cup
  {[username |-> "acme", enabled |-> TRUE, includeRetweets |-> rt,
    includeReplies |-> rp] : rt \in BOOLEAN, rp \in BOOLEAN}

InitFilter ==
  /\ InitObjects
  /\ configFile = ConfigAcme
  /\ disk = NoFile
  /\ \E text \in FilterTexts, isReply \in BOOLEAN, isRetweet \in BOOLEAN,
        profile \in FilterProfiles :
       fnArgs = [fn |-> "shouldIncludeTweet",
                 tweet |-> Tweet(1, text, isReply, isRetweet),
                 profile |-> profile]
  /\ fnResult = NoResult

CallShouldIncludeTweet ==
  /\ fnArgs.fn = "shouldIncludeTweet"
  /\ ~fnResult.done
  /\ fnResult' = [done |-> TRUE,
                  value |-> shouldIncludeTweet(fnArgs.tweet, fnArgs.profile)]
  /\ UNCHANGED <<objVars, fnArgs>>

SpecFilter == InitFilter /\ [][CallShouldIncludeTweet]_vars

\* word occurs in text as a run of consecutive characters
IsSubstring(word, text) ==
  \E a \in 0..Len(text) : \E b \in a..Len(text) : SubSeq(text, a + 1, b) = word

\* the keyword list is empty or absent, or the lower-cased text contains the
\* lower-cased form of at least one keyword
KeywordClause(tweet, profile) ==
  \/ "keywords" \notin DOMAIN profile
  \/ profile.keywords = <<>>
  \/ \E k \in 1..Len(profile.keywords) :
       IsSubstring(toLowerCase(profile.keywords[k]), toLowerCase(tweet.text))

\* C19: shouldIncludeTweet(post, profile) is true exactly when (the post is not
\* a retweet or profile.includeRetweets is true) and (the post is not a reply or
\* profile.includeReplies is true) and (the keyword list is empty or absent, or
\* the lower-cased post text contains the lower-cased form of at least one
\* keyword as a substring); a post excluded by the retweet or reply flag is
\* excluded even if it matches a keyword.
C19_ContentFilter ==
  fnResult.done =>
    LET tweet == fnArgs.tweet
        profile == fnArgs.profile
    IN /\ fnResult.value <=>
            /\ (~tweet.retweeted_tweet \/ profile.includeRetweets)
            /\ (~tweet.isReply \/ profile.includeReplies)
            /\ KeywordClause(tweet, profile)
       /\ ( /\ \/ tweet.retweeted_tweet /\ ~profile.includeRetweets
               \/ tweet.isReply /\ ~profile.includeReplies
            /\ KeywordClause(tweet, profile) )
          => ~fnResult.value

\* "bAb" passes a profile with keywords ["ab"] only by case folding, and a
\* reply with the same text and keywords is excluded by the reply flag
C19_Witness ==
  /\ fnResult.done
  /\ fnResult.value
  /\ fnArgs.tweet.text = <<98, 65, 98>>
  /\ fnArgs.tweet.isReply
  /\ fnArgs.profile.includeReplies
  /\ "keywords" \in DOMAIN fnArgs.profile
  /\ fnArgs.profile.keywords = << <<97, 98>> >>

\* a reply that matches the keyword is excluded when replies are not included
C19_WitnessExcluded ==
  /\ fnResult.done
  /\ ~fnResult.value
  /\ fnArgs.tweet.text = <<98, 65, 98>>
  /\ fnArgs.tweet.isReply
  /\ ~fnArgs.profile.includeReplies
  /\ "keywords" \in DOMAIN fnArgs.profile
  /\ fnArgs.profile.keywords = << <<97, 98>> >>

----------------------------------------------------------------------------
(* Properties of getLastTweetId and setLastTweetId *)

\* the step is a call setLastTweetId(fnArgs'.username, fnArgs'.tweetId)
IsAdvance == lastOp' = "setLastTweetId" /\ calls' = calls + 1

\* C20: setLastTweetId(u, id) makes getLastTweetId(u) return id, increases u's
\* tweetCount by exactly 1 (to 1 if u had no record), and the file holds the
\* new record as soon as the call returns; getLastTweetId(u) is null for a
\* username that was never advanced (a fresh store answers null for every
\* username and an answer changes only in a call setLastTweetId(u, id));
\* over any step of any operation no profile's tweetCount decreases.
C20_CursorAdvance ==
  [][ /\ IsAdvance =>
           LET u == fnArgs'.username
               id == fnArgs'.tweetId
           IN /\ getLastTweetId(db', u) = id
              /\ getLastTweetId(disk', u) = id
              /\ TweetCountOf(db', u) = TweetCountOf(db, u) + 1
              /\ TweetCountOf(disk', u) = TweetCountOf(disk, u) + 1
              /\ u \notin DOMAIN db.profiles => TweetCountOf(disk', u) = 1
      /\ (~initialized /\ initialized' /\ disk = NoFile) =>
           \A u \in Users : getLastTweetId(db', u) = NullId
      /\ initialized =>
           \A u \in Users :
             getLastTweetId(db', u) # getLastTweetId(db, u) =>
               IsAdvance /\ fnArgs'.username = u
      /\ \A u \in Users :
           /\ initialized => TweetCountOf(db', u) >= TweetCountOf(db, u)
           /\ TweetCountOf(LoadWithDefaults(disk', now'), u)
                >= TweetCountOf(LoadWithDefaults(disk, now), u) ]_vars

\* acme, advanced once in an earlier session, was advanced again to P6 and has
\* a count of 2 on file; beta was never advanced and has no cursor
C20_Witness ==
  /\ lastOp = "setLastTweetId"
  /\ fnArgs.fn = "setLastTweetId"
  /\ fnArgs.username = "acme"
  /\ getLastTweetId(disk, "acme") = P6.id_str
  /\ TweetCountOf(disk, "acme") = 2
  /\ getLastTweetId(db, "beta") = NullId

\* beta had no record and was advanced: its count is 1
C20_WitnessFirst ==
  /\ lastOp = "setLastTweetId"
  /\ fnArgs.fn = "setLastTweetId"
  /\ fnArgs.username = "beta"
  /\ getLastTweetId(disk, "beta") = P1.id_str
  /\ TweetCountOf(disk, "beta") = 1

----------------------------------------------------------------------------
(* Properties of the datastore's writing methods and of backup *)

\* the step is a direct call of the method named
IsCall(name) == calls' = calls + 1 /\ lastOp' = name

\* the three lifetime counters of a document
Counters(doc) ==
  <<doc.stats.totalTweetsProcessed, doc.stats.totalSlackMessagesSent,
    doc.stats.duplicateTweetsSkipped>>

\* the counters an init() over the file would find
CountersOnFile(file, t) == Counters(LoadWithDefaults(file, t))

\* C21: each recordTweet(u, post, sent, isDuplicate) call increases
\* totalTweetsProcessed by exactly 1, totalSlackMessagesSent by 1 if and only if
\* sent is true and duplicateTweetsSkipped by 1 if and only if isDuplicate is
\* true, in memory and on file; no step of setLastTweetId,
\* markContentAsProcessed, recordError, cleanup, backup (or any other step)
\* changes the three counters; so they never decrease.
C21_LifetimeCounters ==
  [][ /\ IsCall("recordTweet") =>
           LET c == Counters(db)
               expected == <<c[1] + 1,
                             c[2] + (IF fnArgs'.sent THEN 1 ELSE 0),
                             c[3] + (IF fnArgs'.dup THEN 1 ELSE 0)>>
           IN  Counters(db') = expected /\ Counters(disk') = expected
      /\ (initialized /\ ~IsCall("recordTweet")) => Counters(db') = Counters(db)
      /\ ~IsCall("recordTweet") =>
           CountersOnFile(disk', now') = CountersOnFile(disk, now)
      /\ \A k \in 1..3 :
           CountersOnFile(disk', now')[k] >= CountersOnFile(disk, now)[k] ]_vars

\* over the file of an earlier session a tweet was recorded as sent and not a
\* duplicate: one more processed, one more sent, no more skipped
C21_Witness ==
  /\ lastOp = "recordTweet"
  /\ fnArgs.fn = "recordTweet"
  /\ fnArgs.sent
  /\ ~fnArgs.dup
  /\ Counters(disk) = <<HistoryCap + 1, HistoryCap + 1, 0>>

\* a tweet recorded as an unsent duplicate
C21_WitnessDuplicate ==
  /\ lastOp = "recordTweet"
  /\ fnArgs.fn = "recordTweet"
  /\ ~fnArgs.sent
  /\ fnArgs.dup
  /\ Counters(disk) = <<HistoryCap + 1, HistoryCap, 1>>

----------------------------------------------------------------------------
(* Properties of recordError *)

\* entries are in order of arrival
OldestFirst(errors) ==
  \A i \in 1..(Len(errors) - 1) : errors[i].timestamp <= errors[i + 1].timestamp

\* C22: after any sequence of recordError calls (and of the other calls) the
\* persisted stats.errors list has at most 50 entries, in order of arrival; a
\* recordError call puts its entry last, behind the entries there were, and on
\* a list of 50 the entry that goes is the first, oldest, one.
C22_ErrorRingBound ==
  [][initialized' =>
       LET old == LoadWithDefaults(disk, now).stats.errors
           new == disk'.stats.errors
       IN  /\ Len(new) <= ErrorCap
           /\ OldestFirst(new)
           /\ IsCall("recordError") =>
                /\ new # <<>>
                /\ new[Len(new)] = [message |-> "boom", context |-> "",
                                    timestamp |-> now]
                /\ IF Len(old) < ErrorCap
                   THEN new = Append(old, new[Len(new)])
                   ELSE /\ Len(new) = ErrorCap
                        /\ SubSeq(new, 1, ErrorCap - 1) = SubSeq(old, 2, ErrorCap)
           /\ ~IsCall("recordError") => new = old ]_vars

\* an error was recorded on a list of 50: the first entry of the file is gone,
\* the second is now first and the new entry is last
C22_Witness ==
  /\ initialized
  /\ lastOp = "recordError"
  /\ Len(disk.stats.errors) = ErrorCap
  /\ disk.stats.errors[1] = HistoryFile.stats.errors[2]
  /\ disk.stats.errors[ErrorCap].message = "boom"

----------------------------------------------------------------------------
(* Properties of backup *)

\* C23: backup() writes a snapshot equal to the live document at the time of
\* the call (its profiles, processed-content index, stats and settings) and
\* leaves the live document, in memory and on file, unchanged.
C23_BackupSnapshot ==
  [][IsCall("backup") =>
       /\ backupFile' = db
       /\ backupFile' = disk
       /\ DOMAIN backupFile' = {"profiles", "processedTweets", "stats", "settings"}
       /\ db' = db
       /\ disk' = disk]_vars

\* the document of an earlier session, with a full history and non-zero
\* counters, was backed up
C23_Witness ==
  /\ lastOp = "backup"
  /\ backupFile = HistoryFile
  /\ db = HistoryFile
  /\ disk = HistoryFile

----------------------------------------------------------------------------
(* isDuplicateContent next to markContentAsProcessed and cleanup *)

\* the arguments of the call are kept in fnArgs, the answer in fnResult; lowdb
\* writes the file only in write(), which the method does not call
ApiIsDuplicateContent ==
  /\ CanCall
  /\ \E tweet \in ApiTweets \cup {OldTweet(1)} :
       LET call == [fn |-> "isDuplicateContent", username |-> "acme",
                    tweet |-> tweet, sent |-> FALSE, dup |-> FALSE]
       IN  /\ fnArgs' = call
           /\ db' = Invoke(initialized, db, call, now).doc
           /\ fnResult' = [done |-> TRUE, value |-> isDuplicateContent(db, tweet)]
  /\ lastOp' = "isDuplicateContent"
  /\ calls' = calls + 1
  /\ pruned' = 0
  /\ UNCHANGED <<discarded, backupFile, scraperVars, initialized, disk, now,
                 ticks, markLog, sincePrune, keptByPrune>>

NextDuplicate == NextIndex \/ ApiIsDuplicateContent

SpecDuplicate == InitIndex /\ [][NextDuplicate]_vars

\* C24: isDuplicateContent is a pure read: a call, with any post, leaves the
\* in-memory and the persisted document unchanged, and so the answer for every
\* post after the call is what it was before the call; a call repeated at once
\* with the same post gives the same answer.
C24_PureRead ==
  [][IsCall("isDuplicateContent") =>
       /\ db' = db
       /\ disk' = disk
       /\ \A p \in ApiTweets \cup {P4, OldTweet(1)} :
            isDuplicateContent(db', p) <=> isDuplicateContent(db, p)
       /\ (lastOp = "isDuplicateContent" /\ fnArgs.tweet = fnArgs'.tweet)
            => (fnResult'.value <=> fnResult.value)]_vars

\* a post of the index of an earlier session was tested as the last of
\* MaxCalls calls, none of them a mark: the answer is true, the file is the
\* file of the earlier session and P6, never marked, is still no duplicate
C24_Witness ==
  /\ lastOp = "isDuplicateContent"
  /\ calls = MaxCalls
  /\ markLog = <<>>
  /\ fnArgs.tweet = OldTweet(1)
  /\ fnResult.done
  /\ fnResult.value
  /\ disk = IndexFile
  /\ ~isDuplicateContent(disk, P6)

\* P1 was marked and then tested: the answer is true
C24_WitnessMarked ==
  /\ lastOp = "isDuplicateContent"
  /\ markLog # <<>>
  /\ fnArgs.tweet = P1
  /\ fnResult.done
  /\ fnResult.value

\* a post never marked was tested: the answer is false and the index is empty
C24_WitnessFresh ==
  /\ lastOp = "isDuplicateContent"
  /\ fnArgs.tweet = P6
  /\ fnResult.done
  /\ ~fnResult.value
  /\ disk.processedTweets = <<>>

----------------------------------------------------------------------------
(* Properties of cleanup *)

\* the record was processed less than 30 days before t
WithinThirtyDays(r, t) == t - r.processed_at < ThirtyDays

----------------------------------------------------------------------------
(* A profile whose processing fails *)

\* C26: whenever a profile's fetch fails during a run, the run's errors
\* counter is increased by one for that profile, the profile is not counted in
\* profilesChecked, the error is recorded against that profile as the last
\* entry of the persisted error list, and the run continues with the next
\* profile.
C26_ProfileFailureRecorded ==
  [][failed' # failed =>
       /\ stats'.errors = stats.errors + 1
       /\ stats'.profilesChecked = stats.profilesChecked
       /\ Len(disk'.stats.errors) = Len(disk.stats.errors) + 1
       /\ disk'.stats.errors[Len(disk'.stats.errors)].context
            = "Profile: " \o profiles[idx].username
       /\ pc' = "loop"
       /\ idx' = idx + 1]_vars

----------------------------------------------------------------------------
(* The running server: run() called by the cron job and by POST /scrape.   *)
(* A run() call gives way to other callbacks at each await: of              *)
(* fetchUserTweets, of sendTweet, of sendErrorNotification, of sendSummary. *)

\* run() reaches profile i: processProfile reads the cursor and awaits the
\* fetch; after the last profile run() awaits sendSummary
EnterProfile(i, doc) ==
  IF i > Len(profiles)
  THEN [pc |-> "summary", idx |-> i, sinceId |-> NullId, pending |-> <<>>]
  ELSE [pc |-> "fetch", idx |-> i,
        sinceId |-> getLastTweetId(doc, profiles[i].username),
        pending |-> <<>>]

RunsInFlight == {t \in Triggers : inflight[t].pc # "idle"}

\* the cron callback or the POST /scrape handler calls scraper.run(): neither
\* looks at whether a run is in flight
TriggerRun(t) ==
  /\ pc = "idle"
  /\ inflight[t].pc = "idle"
  /\ runsDone + Cardinality(RunsInFlight) < MaxRuns
  /\ stats' = ResetStats(stats)
  /\ inflight' = [inflight EXCEPT ![t] = EnterProfile(1, db)]
  /\ UNCHANGED <<fnVars, apiVars, throttle, fetch, lambda, configFile, profiles, pc, idx, cur, pending,
                 initialized, db, disk, now, ticks, delivered, sendCalls,
                 summaries, unsent, runsDone, runThrew, passed, failed,
                 lastBatch, startedEmpty, endCursor>>

\* the await of fetchUserTweets returns: the tweets are filtered
FetchReturns(t) ==
  /\ inflight[t].pc = "fetch"
  /\ \E answer \in UpstreamAnswers(profiles[inflight[t].idx].username) :
       LET run == inflight[t]
           profile == profiles[run.idx]
           tweets == SinceFilter(answer, run.sinceId)
           filteredTweets == SelectSeq(tweets, LAMBDA tw : shouldIncludeTweet(tw, profile))
       IN  IF Len(filteredTweets) = 0
           THEN /\ stats' = [stats EXCEPT !.profilesChecked = @ + 1]
                /\ inflight' = [inflight EXCEPT ![t] = EnterProfile(run.idx + 1, db)]
           ELSE /\ stats' = stats
                /\ inflight' = [inflight EXCEPT ![t] =
                                  [run EXCEPT !.pc = "send", !.pending = filteredTweets]]
  /\ UNCHANGED <<fnVars, apiVars, throttle, fetch, lambda, configFile, profiles, pc, idx, cur, pending,
                 initialized, db, disk, now, ticks, delivered, sendCalls,
                 summaries, unsent, runsDone, runThrew, passed, failed,
                 lastBatch, startedEmpty, endCursor>>

\* the await of fetchUserTweets throws: run() counts the error, awaits
\* sendErrorNotification and goes on with the next profile
FetchThrows(t) ==
  /\ inflight[t].pc = "fetch"
  /\ stats' = [stats EXCEPT !.errors = @ + 1]
  /\ inflight' = [inflight EXCEPT ![t] = EnterProfile(inflight[t].idx + 1, db)]
  /\ UNCHANGED <<fnVars, apiVars, throttle, fetch, lambda, configFile, profiles, pc, idx, cur, pending,
                 initialized, db, disk, now, ticks, delivered, sendCalls,
                 summaries, unsent, runsDone, runThrew, passed, failed,
                 lastBatch, startedEmpty, endCursor>>

\* the await of sendTweet returns: the tweet is recorded and the cursor set
SendReturns(t) ==
  /\ inflight[t].pc = "send"
  /\ \E sent \in BOOLEAN :
       LET run == inflight[t]
           profile == profiles[run.idx]
           tweet == Head(run.pending)
           last == Tail(run.pending) = <<>>
       IN  /\ delivered' = delivered \cup {tweet}
           /\ sendCalls' = sendCalls + 1
           /\ unsent' = IF sent THEN unsent ELSE unsent \cup {tweet}
           /\ db' = StoreTweet(db, profile.username, tweet, sent, now)
           /\ disk' = db'
           /\ stats' = [stats EXCEPT
                          !.messagesSent = IF sent THEN @ + 1 ELSE @,
                          !.newTweetsFound = @ + 1,
                          !.profilesChecked = IF last THEN @ + 1 ELSE @]
           /\ inflight' = [inflight EXCEPT ![t] =
                             IF last THEN EnterProfile(run.idx + 1, db')
                             ELSE [run EXCEPT !.pending = Tail(run.pending)]]
  /\ UNCHANGED <<fnVars, apiVars, throttle, fetch, lambda, configFile, profiles, pc, idx, cur, pending,
                 initialized, now, ticks, summaries, runsDone, runThrew, passed,
                 failed, lastBatch, startedEmpty, endCursor>>

\* the await of sendSummary returns: run() returns
SummaryReturns(t) ==
  /\ inflight[t].pc = "summary"
  /\ summaries' = summaries + 1
  /\ runsDone' = runsDone + 1
  /\ inflight' = [inflight EXCEPT ![t] = IdleRun]
  /\ UNCHANGED <<fnVars, apiVars, throttle, fetch, lambda, configFile, profiles, stats, pc, idx, cur,
                 pending, initialized, db, disk, now, ticks, delivered,
                 sendCalls, unsent, runThrew, passed, failed, lastBatch,
                 startedEmpty, endCursor>>

NextTriggers ==
  \/ ScraperInit
  \/ \E t \in Triggers :
       \/ TriggerRun(t)
       \/ FetchReturns(t)
       \/ FetchThrows(t)
       \/ SendReturns(t)
       \/ SummaryReturns(t)

SpecTriggers == Init /\ [][NextTriggers]_vars

\* C27: at most one execution of TwitterScraper.run is in flight at any time,
\* whatever the arrival times of the cron trigger and the POST /scrape
\* requests; so no two runs in flight have read the same stored cursor for the
\* same profile.
C27_SingleActiveRun ==
  /\ Cardinality(RunsInFlight) <= 1
  /\ \A t1, t2 \in RunsInFlight :
       (t1 # t2 /\ inflight[t1].idx = inflight[t2].idx
          /\ inflight[t1].idx <= Len(profiles))
         => inflight[t1].sinceId # inflight[t2].sinceId

----------------------------------------------------------------------------
(* The store between two posts of a batch *)

\* the filtered tweets of the batch being handled
FilteredBatch == SelectSeq(lastBatch, LAMBDA tw : shouldIncludeTweet(tw, cur))

\* those of them whose pass of the per-tweet loop is complete
Handled == SubSeq(FilteredBatch, 1, Len(FilteredBatch) - Len(pending))

\* the process is between two posts of a batch
BetweenTwoPosts == pc = "tweets" /\ Handled # <<>> /\ pending # <<>>

\* the file holds the cursor and the counters of the posts handled so far
CursorAndCountersOnFile ==
  /\ getLastTweetId(disk, cur.username) = Handled[Len(Handled)].id_str
  /\ disk.stats.totalTweetsProcessed = sendCalls

\* the file holds a history record of every post handled so far
HistoryOnFile ==
  \A i \in 1..Len(Handled) :
    \E k \in 1..Len(HistoryOf(disk, cur.username)) :
      HistoryOf(disk, cur.username)[k].id = Handled[i].id_str

\* C28: within a batch the stored cursor is written once per handled post, so
\* if the process stops between two posts of a batch the persisted cursor is
\* the id of the last post fully handled, and the persisted counters and the
\* persisted history already include every post handled before the stop.
C28_PerPostCursorAdvance ==
  BetweenTwoPosts => CursorAndCountersOnFile /\ HistoryOnFile

\* the part of C28 about the cursor and the counters alone
C28_CursorAndCounters == BetweenTwoPosts => CursorAndCountersOnFile

----------------------------------------------------------------------------
(* createRateLimiter, and the outbound calls of the runs in flight: each    *)
(* processProfile awaits twitterService.fetchUserTweets, which awaits the   *)
(* limiter and then calls upstream, and then awaits slackService.sendTweet  *)
(* for each tweet.  Time is Date.now(), in milliseconds.                    *)

\* const interval = 60000 / requestsPerMinute
Interval == MsPerMinute \div RequestsPerMinute

\* the limiter: how long a caller arriving at time t sleeps
WaitTime(lastRequest, t) ==
  IF t - lastRequest < Interval THEN Interval - (t - lastRequest) ELSE 0

\* everything but the limiter
notThrottle ==
  <<fnVars, apiVars, configFile, profiles, stats, pc, idx, cur, pending,
    initialized, db, disk, now, ticks, delivered, sendCalls, summaries,
    inflight, fetch, lambda, unsent, runsDone, runThrew, passed, failed,
    lastBatch, startedEmpty, endCursor>>

\* an outbound call starts now
Outbound(kind) == Append(throttle.outbound, [kind |-> kind, at |-> throttle.clock])

\* time passes, by half an interval
ClockAdvance ==
  /\ throttle.clock < MsPerMinute + MaxClockTicks * (Interval \div 2)
  /\ throttle' = [throttle EXCEPT !.clock = @ + Interval \div 2]
  /\ UNCHANGED notThrottle

\* fetchUserTweets: await this.rateLimiter().  The limiter reads lastRequest;
\* if the interval has passed it sets lastRequest and returns, and the upstream
\* call starts; otherwise it sleeps, leaving lastRequest as it is
LimiterEnter(c) ==
  /\ throttle.callers[c].pc = "out"
  /\ Len(throttle.outbound) < MaxOutbound
  /\ LET waitTime == WaitTime(throttle.lastRequest, throttle.clock)
     IN  IF waitTime > 0
         THEN throttle' = [throttle EXCEPT
                             !.callers[c] = [pc |-> "sleep",
                                             wakeAt |-> throttle.clock + waitTime]]
         ELSE throttle' = [throttle EXCEPT
                             !.lastRequest = throttle.clock,
                             !.callers[c] = [pc |-> "fetch", wakeAt |-> 0],
                             !.outbound = Outbound("fetch")]
  /\ UNCHANGED notThrottle

\* the sleep is over: lastRequest = Date.now(), the limiter returns and the
\* upstream call starts
LimiterWake(c) ==
  /\ throttle.callers[c].pc = "sleep"
  /\ throttle.clock >= throttle.callers[c].wakeAt
  /\ throttle' = [throttle EXCEPT
                    !.lastRequest = throttle.clock,
                    !.callers[c] = [pc |-> "fetch", wakeAt |-> 0],
                    !.outbound = Outbound("fetch")]
  /\ UNCHANGED notThrottle

\* processProfile: await this.slackService.sendTweet(tweet, profile), for the
\* first tweet of the batch or the next; sendTweet posts at once
SendTweetCall(c) ==
  /\ throttle.callers[c].pc \in {"fetch", "send"}
  /\ Len(throttle.outbound) < MaxOutbound
  /\ throttle' = [throttle EXCEPT
                    !.callers[c] = [pc |-> "send", wakeAt |-> 0],
                    !.outbound = Outbound("send")]
  /\ UNCHANGED notThrottle

\* processProfile returns; the caller may go on with its next profile
ProfileDone(c) ==
  /\ throttle.callers[c].pc \in {"fetch", "send"}
  /\ throttle' = [throttle EXCEPT !.callers[c] = [pc |-> "out", wakeAt |-> 0]]
  /\ UNCHANGED notThrottle

NextThrottle ==
  \/ ClockAdvance
  \/ \E c \in Triggers :
       \/ LimiterEnter(c)
       \/ LimiterWake(c)
       \/ SendTweetCall(c)
       \/ ProfileDone(c)

SpecThrottle == Init /\ [][NextThrottle]_vars

\* the outbound calls of one kind, in the order they started
CallsOf(kind) == SelectSeq(throttle.outbound, LAMBDA call : call.kind = kind)

\* consecutive calls start at least an interval apart
Spaced(outbound) ==
  \A i \in 1..(Len(outbound) - 1) : outbound[i + 1].at - outbound[i].at >= Interval

\* C29: every outbound call to the fetch collaborator and every outbound call
\* to the delivery collaborator is preceded by the fixed-interval limiter: any
\* two consecutive fetch calls, and any two consecutive delivery calls, start
\* at least 60000/N ms apart, including when a caller invokes the limiter
\* while an earlier caller is still waiting in it.
C29_ThrottleSpacing == Spaced(CallsOf("fetch")) /\ Spaced(CallsOf("send"))

\* the part of C29 about the fetch calls alone
C29_FetchSpacing == Spaced(CallsOf("fetch"))

----------------------------------------------------------------------------
(* Properties of init *)

\* the step is a call of init(): in a process that only uses the datastore
\* every other step is a counted call or a clock advance
IsInit == calls' = calls /\ ticks' = ticks

TopLevelKeys == {"profiles", "processedTweets", "stats", "settings"}

\* the top-level keys the file holds
KeysOnFile(file) == IF file = NoFile THEN {} ELSE DOMAIN file

C30_WitnessAgain ==
  /\ initialized
  /\ lastOp = "recordTweet"
  /\ db.stats.totalTweetsProcessed = HistoryCap + 1
  /\ Len(HistoryOf(db, "acme")) = HistoryCap
  /\ disk = db

----------------------------------------------------------------------------
(* validateEnvironment applied on its own *)

\* process.env[key] of a variable that is not in the environment
Undefined == "<undefined>"

EnvNames ==
  {"SLACK_WEBHOOK_URL", "SCRAPE_INTERVAL_MINUTES", "TWITTERAPI_API_KEY",
   "APIFY_API_TOKEN"}

\* a variable is absent, is the empty string, or has a value
EnvValues == {Undefined, "", "value"}

\* JavaScript truthiness of process.env[key]
Truthy(v) == v \notin {Undefined, ""}

required == <<"SLACK_WEBHOOK_URL", "SCRAPE_INTERVAL_MINUTES">>

\* faulty variant of validateEnvironment: the API configuration is not looked at
validateEnvironmentRequiredOnly(env) ==
  LET missing == SelectSeq(required, LAMBDA key : ~Truthy(env[key]))
  IN  IF Len(missing) > 0
      THEN [valid |-> FALSE, missing |-> missing]
      ELSE [valid |-> TRUE]

\* validateEnvironment(): required.filter(key => !process.env[key]), then the
\* check that one of the two API variables is there
validateEnvironment(env) ==
  LET missing == SelectSeq(required, LAMBDA key : ~Truthy(env[key]))
      hasTwitterAPI ==
        Truthy(env["TWITTERAPI_API_KEY"]) \/ Truthy(env["APIFY_API_TOKEN"])
  IN  IF Len(missing) > 0
      THEN [valid |-> FALSE, missing |-> missing]
      ELSE IF ~hasTwitterAPI
      THEN [valid |-> FALSE,
            missing |-> <<"TWITTERAPI_API_KEY or APIFY_API_TOKEN">>]
      ELSE [valid |-> TRUE]

InitEnvironment ==
  /\ InitObjects
  /\ configFile = ConfigAcme
  /\ disk = NoFile
  /\ \E env \in [EnvNames -> EnvValues] :
       fnArgs = [fn |-> "validateEnvironment", env |-> env]
  /\ fnResult = NoResult

CallValidateEnvironment ==
  /\ fnArgs.fn = "validateEnvironment"
  /\ ~fnResult.done
  /\ fnResult' = [done |-> TRUE, value |-> validateEnvironment(fnArgs.env)]
  /\ UNCHANGED <<objVars, fnArgs>>

SpecEnvironment == InitEnvironment /\ [][CallValidateEnvironment]_vars

\* the variable has a non-empty value
IsSet(env, key) == env[key] \notin {Undefined, ""}

C31_WitnessMissing ==
  /\ fnResult.done
  /\ fnArgs.fn = "validateEnvironment"
  /\ ~fnResult.value.valid
  /\ fnResult.value.missing = required

\* the call returned valid = false because no API variable is set
C31_WitnessNoApi ==
  /\ fnResult.done
  /\ fnArgs.fn = "validateEnvironment"
  /\ ~fnResult.value.valid
  /\ IsSet(fnArgs.env, "SLACK_WEBHOOK_URL")
  /\ IsSet(fnArgs.env, "SCRAPE_INTERVAL_MINUTES")

----------------------------------------------------------------------------
(* TwitterService.fetchUserTweets applied on its own *)

ApiTypes == {"twitterapi", "apify"}

\* `null` for the cursor of the search
NullCursor == "null"

\* the values of next_cursor the upstream sends
Cursors == {"c1", "c2"}

\* fetchUserTweets(username, sinceId, count): the rate limiter has been
\* awaited; fetchWithTwitterAPI starts its paging loop, fetchWithApify posts
\* the run
CallFetchUserTweets ==
  /\ fetch.pc = "none"
  /\ \E apiType \in ApiTypes, sinceId \in {NullId, 1, 2}, count \in 1..MaxCount :
       fetch' = [pc |-> IF apiType = "twitterapi" THEN "page" ELSE "create",
                 apiType |-> apiType, username |-> "acme", sinceId |-> sinceId,
                 count |-> count, allTweets |-> <<>>, nextCursor |-> NullCursor,
                 attempts |-> 0, polls |-> 0, answer |-> "none",
                 items |-> <<>>, result |-> <<>>]
  /\ UNCHANGED <<fnVars, apiVars, configFile, profiles, stats, pc, idx, cur,
                 pending, initialized, db, disk, now, ticks, delivered,
                 sendCalls, summaries, inflight, throttle, lambda, unsent,
                 runsDone, runThrew, passed, failed, lastBatch, startedEmpty,
                 endCursor>>

notFetch ==
  <<fnVars, apiVars, configFile, profiles, stats, pc, idx, cur, pending,
    initialized, db, disk, now, ticks, delivered, sendCalls, summaries,
    inflight, throttle, lambda, unsent, runsDone, runThrew, passed, failed,
    lastBatch, startedEmpty, endCursor>>

\* the function returns tweets
FetchResult(tweets) == [fetch EXCEPT !.pc = "returned", !.result = tweets]

\* a page with status 200, has_next_page and a next_cursor: the tweets are
\* pushed and the loop continues
PageContinues ==
  /\ fetch.pc = "page"
  /\ \E tweets \in UpstreamAnswers(fetch.username), cursor \in Cursors :
       /\ Len(fetch.allTweets) + Len(tweets) <= MaxFetched
       /\ fetch' = [fetch EXCEPT !.allTweets = @ \o tweets, !.nextCursor = cursor]
  /\ UNCHANGED notFetch

\* a page with status 200 and no next page: the tweets are pushed, the loop
\* breaks and the collected tweets are filtered by sinceId
PageEnds ==
  /\ fetch.pc = "page"
  /\ \E tweets \in UpstreamAnswers(fetch.username) :
       /\ Len(fetch.allTweets) + Len(tweets) <= MaxFetched
       /\ fetch' = FetchResult(SinceFilter(fetch.allTweets \o tweets, fetch.sinceId))
  /\ UNCHANGED notFetch

\* a page with another status, or a request that throws: the loop breaks and
\* the tweets collected so far are filtered by sinceId
PageFails ==
  /\ fetch.pc = "page"
  /\ fetch' = FetchResult(SinceFilter(fetch.allTweets, fetch.sinceId))
  /\ UNCHANGED notFetch

\* fetchWithApify: the post that creates the run returns
CreateRunReturns ==
  /\ fetch.pc = "create"
  /\ fetch' = [fetch EXCEPT !.pc = "poll"]
  /\ UNCHANGED notFetch

\* fetchWithApify: the post that creates the run throws
CreateRunThrows ==
  /\ fetch.pc = "create"
  /\ fetch' = [fetch EXCEPT !.pc = "threw"]
  /\ UNCHANGED notFetch

\* faulty variant of CanPoll: one poll more
CanPollOnceMore(attempts) == attempts <= maxAttempts

\* waitForApifyRun: while (attempts < maxAttempts)
CanPoll(attempts) == attempts < maxAttempts

\* waitForApifyRun: a poll answers with a non-empty list, which is returned;
\* fetchWithApify filters it by sinceId
PollItems ==
  /\ fetch.pc = "poll"
  /\ CanPoll(fetch.attempts)
  /\ \E items \in UpstreamAnswers(fetch.username) \ {<<>>} :
       fetch' = [FetchResult(SinceFilter(items, fetch.sinceId))
                   EXCEPT !.polls = @ + 1, !.answer = "items", !.items = items]
  /\ UNCHANGED notFetch

\* waitForApifyRun: a poll answers with an empty list or with no data, or the
\* request throws and the catch block logs 'not ready yet': attempts++
PollNotReady ==
  /\ fetch.pc = "poll"
  /\ CanPoll(fetch.attempts)
  /\ \E answer \in {"empty", "failed"} :
       fetch' = [fetch EXCEPT !.attempts = @ + 1, !.polls = @ + 1,
                              !.answer = answer]
  /\ UNCHANGED notFetch

\* waitForApifyRun: the loop ends, 'did not complete within expected time'
PollTimeout ==
  /\ fetch.pc = "poll"
  /\ ~CanPoll(fetch.attempts)
  /\ fetch' = [fetch EXCEPT !.pc = "threw", !.answer = "timeout"]
  /\ UNCHANGED notFetch

NextFetch ==
  \/ CallFetchUserTweets
  \/ PageContinues
  \/ PageEnds
  \/ PageFails
  \/ CreateRunReturns
  \/ CreateRunThrows
  \/ PollItems
  \/ PollNotReady
  \/ PollTimeout

SpecFetch == Init /\ [][NextFetch]_vars

\* every awaited request completes (the search has a timeout of 30 s, a poll
\* follows a sleep of 10 s), so the function keeps taking steps
SpecFetchFair == SpecFetch /\ WF_vars(NextFetch)

FetchEnded == fetch.pc \in {"returned", "threw"}

\* a call of fetchUserTweets ends, by returning or by throwing
C32_FetchTerminates == (fetch.pc # "none") ~> FetchEnded

\* a call that returns, returns at most `count` tweets
C32_FetchAtMostCount ==
  fetch.pc = "returned" => Len(fetch.result) <= fetch.count

\* a call with a sinceId that returns, returns tweets with greater ids only
C32_FetchSinceId ==
  (fetch.pc = "returned" /\ fetch.sinceId # NullId) =>
    \A i \in 1..Len(fetch.result) : fetch.result[i].id > fetch.sinceId

\* C32: fetchUserTweets(username, sinceId, count) terminates for every
\* sequence of upstream responses, an upstream that reports has_next_page with
\* a next_cursor on every page included, and returns at most `count` tweets,
\* all with an id greater than sinceId when sinceId is given.
C32_FetchBounded ==
  /\ C32_FetchTerminates
  /\ [](C32_FetchAtMostCount /\ C32_FetchSinceId)

----------------------------------------------------------------------------
(* Properties of the profile records: history next to the cursor *)

\* getProfileStats(username): the stored record, or the record of a profile
\* never seen
getProfileStats(doc, username) ==
  IF username \in DOMAIN doc.profiles
  THEN doc.profiles[username]
  ELSE [lastTweetId |-> NullId, lastUpdated |-> NullTime, tweetCount |-> 0,
        history |-> <<>>]

\* the record of the user but for the three fields setLastTweetId writes
RestOfProfile(doc, username) ==
  IF username \in DOMAIN doc.profiles
  THEN [k \in DOMAIN doc.profiles[username]
            \ {"lastTweetId", "lastUpdated", "tweetCount"} |->
          doc.profiles[username][k]]
  ELSE <<>>

\* C33: setLastTweetId(u, id) changes only u's lastTweetId, lastUpdated and
\* tweetCount: u's history after the call is the same sequence as before it,
\* in memory and on file, and the records of the other users, the index and
\* the stats are as before.
C33_AdvanceKeepsHistory ==
  [][IsAdvance =>
       LET u == fnArgs'.username
       IN  /\ HistoryOf(db', u) = HistoryOf(db, u)
           /\ HistoryOf(disk', u) = HistoryOf(db, u)
           /\ RestOfProfile(db', u) = RestOfProfile(db, u)
           /\ \A v \in Users \ {u} :
                getProfileStats(db', v) = getProfileStats(db, v)
           /\ db'.stats = db.stats
           /\ db'.processedTweets = db.processedTweets]_vars

\* the part of C33 about what is outside u's record
C33_AdvanceFrame ==
  [][IsAdvance =>
       LET u == fnArgs'.username
       IN  /\ \A v \in Users \ {u} :
                getProfileStats(db', v) = getProfileStats(db, v)
           /\ db'.stats = db.stats
           /\ db'.processedTweets = db.processedTweets]_vars

\* C34: recordTweet(u, post, sent, dup) for a username u that has no profile
\* record yet results in a persisted profile entry for u whose history is the
\* single record of that post, visible through getProfileStats(u).
C34_FirstRecordKept ==
  [][(IsCall("recordTweet") /\ fnArgs'.username \notin DOMAIN db.profiles) =>
       LET u == fnArgs'.username
           rec == TweetRecord(fnArgs'.tweet, fnArgs'.sent, fnArgs'.dup, now)
       IN  /\ u \in DOMAIN disk'.profiles
           /\ HistoryOf(disk', u) = <<rec>>
           /\ getProfileStats(db', u).history = <<rec>>]_vars

\* recordTweet for a username that has a profile record with a history puts
\* the record at the head of the persisted history
C34_RecordOnKnownProfile ==
  [][(/\ IsCall("recordTweet")
      /\ fnArgs'.username \in DOMAIN db.profiles
      /\ "history" \in DOMAIN db.profiles[fnArgs'.username]) =>
       LET u == fnArgs'.username
           rec == TweetRecord(fnArgs'.tweet, fnArgs'.sent, fnArgs'.dup, now)
       IN  /\ Head(HistoryOf(disk', u)) = rec
           /\ getProfileStats(db', u).history = HistoryOf(disk', u)]_vars

----------------------------------------------------------------------------
(* The per-tweet loop over a disk that refuses some writes: lowdb's write()  *)
(* changes the in-memory document and then writes the file, so a write that  *)
(* throws leaves the change in memory and the file as it was                  *)

\* the in-memory document when the k-th write of the try block throws: the
\* writes are recordTweet's history and stats writes and setLastTweetId's
TryMemory(doc, username, tweet, sent, t, k) ==
  CASE k = 1 -> RecordInHistory(doc, username, TweetRecord(tweet, sent, FALSE, t))
    [] k = 2 -> recordTweet(doc, username, tweet, sent, FALSE, t)
    [] k = 3 -> StoreTweet(doc, username, tweet, sent, t)

\* the file at that moment: what the write before the k-th wrote
TryFile(doc, file, username, tweet, sent, t, k) ==
  IF k = 1 THEN file ELSE TryMemory(doc, username, tweet, sent, t, k - 1)

\* the catch block's recordTweet(username, tweet, false) whose j-th write
\* throws (j = 0: none does): the document in memory and the file afterwards
CatchRecord(mem, file, username, tweet, t, j) ==
  LET c1 == RecordInHistory(mem, username, TweetRecord(tweet, FALSE, FALSE, t))
      c2 == UpdateStats(c1, FALSE, FALSE, t)
  IN  CASE j = 0 -> [db |-> c2, disk |-> c2]
        [] j = 1 -> [db |-> c1, disk |-> file]
        [] j = 2 -> [db |-> c2, disk |-> c1]

\* processProfile: one pass of the per-tweet loop in which a datastore call of
\* the try block throws after the delivery; the catch block calls recordTweet
\* again, and if that call throws too the error leaves processProfile and
\* reaches the catch block of run()
HandleTweetCatch ==
  /\ pc = "tweets"
  /\ pending # <<>>
  /\ \E sent \in BOOLEAN, k \in 1..3, j \in 0..2 :
       LET tweet == Head(pending)
           mem == TryMemory(db, cur.username, tweet, sent, now, k)
           file == TryFile(db, disk, cur.username, tweet, sent, now, k)
           after == CatchRecord(mem, file, cur.username, tweet, now, j)
           sentStats == [stats EXCEPT !.messagesSent = IF sent THEN @ + 1 ELSE @]
       IN  /\ delivered' = delivered \cup {tweet}
           /\ sendCalls' = sendCalls + 1
           /\ unsent' = IF sent THEN unsent ELSE unsent \cup {tweet}
           /\ db' = after.db
           /\ disk' = after.disk
           /\ IF j = 0
              THEN /\ pending' = Tail(pending)
                   /\ IF Tail(pending) = <<>>
                      THEN /\ stats' = [sentStats EXCEPT !.profilesChecked = @ + 1]
                           /\ idx' = idx + 1
                           /\ pc' = "loop"
                           /\ cur' = NoProfile
                      ELSE /\ stats' = sentStats
                           /\ UNCHANGED <<idx, pc, cur>>
                   /\ UNCHANGED <<failed, runThrew>>
              ELSE /\ stats' = [sentStats EXCEPT !.errors = @ + 1]
                   /\ failed' = failed \cup {idx}
                   /\ LET r == RunCatch(idx)
                      IN  /\ idx' = r.next
                          /\ runThrew' = r.threw
                          /\ pc' = IF r.threw THEN "idle" ELSE "loop"
                   /\ pending' = <<>>
                   /\ cur' = NoProfile
  /\ UNCHANGED <<fnVars, summaries, inflight, throttle, fetch, lambda,
                 configFile, profiles, initialized, now, ticks, runsDone,
                 passed, lastBatch, startedEmpty, endCursor, apiVars>>

\* the engine over a disk that refuses some writes
NextFlaky ==
  \/ ScraperInit
  \/ RunStartFaulty
  \/ ProcessProfileThrows
  \/ ProcessProfileFetch
  \/ HandleTweet
  \/ HandleTweetCatch
  \/ SendSummary

SpecFlaky == InitFaulty /\ [][NextFlaky]_vars

\* the step is one pass of the per-tweet loop: a post is handled
IsPass == sendCalls' = sendCalls + 1

\* C35: each handled post is recorded exactly once: over every pass of the
\* per-tweet loop totalTweetsProcessed grows by exactly 1, in memory and on
\* file, including when a datastore call inside the try block throws and the
\* catch branch runs.
C35_RecordedOnce ==
  [][IsPass =>
       /\ db'.stats.totalTweetsProcessed = db.stats.totalTweetsProcessed + 1
       /\ disk'.stats.totalTweetsProcessed = db'.stats.totalTweetsProcessed]_vars

\* C36: at every point of a run messagesSent is at most newTweetsFound, and in
\* every reachable state of the store totalSlackMessagesSent and
\* duplicateTweetsSkipped are each at most totalTweetsProcessed, including on
\* paths where a datastore call throws after a successful delivery.
C36_CounterConsistency ==
  /\ stats.messagesSent <= stats.newTweetsFound
  /\ initialized =>
       /\ db.stats.totalSlackMessagesSent <= db.stats.totalTweetsProcessed
       /\ db.stats.duplicateTweetsSkipped <= db.stats.totalTweetsProcessed
       /\ disk.stats.totalSlackMessagesSent <= disk.stats.totalTweetsProcessed
       /\ disk.stats.duplicateTweetsSkipped <= disk.stats.totalTweetsProcessed

\* the part of C36 about the counters of the store
C36_StoreCounters ==
  initialized =>
    /\ db.stats.totalSlackMessagesSent <= db.stats.totalTweetsProcessed
    /\ db.stats.duplicateTweetsSkipped <= db.stats.totalTweetsProcessed
    /\ disk.stats.totalSlackMessagesSent <= disk.stats.totalTweetsProcessed
    /\ disk.stats.duplicateTweetsSkipped <= disk.stats.totalTweetsProcessed

\* C37: when run returns, profilesChecked + errors equals the number of
\* enabled profiles, each profile being counted in exactly one of the two:
\* errors counts the profiles whose processProfile threw and profilesChecked
\* the others (one run at a time on the scraper object).
C37_ProfileAccounting ==
  (pc = "idle" /\ runsDone > 0 /\ ~runThrew) =>
    LET enabled == 1..Len(loadProfiles(configFile))
    IN  /\ stats.profilesChecked + stats.errors = Cardinality(enabled)
        /\ passed = enabled
        /\ failed \subseteq enabled
        /\ stats.errors = Cardinality(failed)
        /\ stats.profilesChecked = Cardinality(enabled \ failed)

\* a run over acme and beta has returned: acme was checked, beta failed
C37_Witness ==
  /\ pc = "idle"
  /\ runsDone = 1
  /\ Len(profiles) = 2
  /\ failed = {2}
  /\ stats.profilesChecked = 1
  /\ stats.errors = 1
  /\ sendCalls >= 1

----------------------------------------------------------------------------
(* serverless/handler.js: one Lambda container.  The module-level variable   *)
(* `scraper` lives as long as the container; a container handles one         *)
(* invocation at a time                                                      *)

\* the exported handlers that call initScraper
Handlers == {"scrape", "manualTrigger", "getStats"}

\* the steps of TwitterScraper.init() that can throw
InitStages == {"validateEnvironment", "loadProfiles", "dbService.init",
               "testConnections"}

notLambda ==
  <<fnVars, apiVars, configFile, stats, idx, cur, pending, now, ticks,
    delivered, sendCalls, summaries, inflight, throttle, fetch, unsent,
    runsDone, runThrew, passed, failed, lastBatch, startedEmpty, endCursor>>

\* initScraper: if (!scraper)
ScraperMissing(container) == container.scraper = "null"

\* a handler is invoked and calls initScraper: without a scraper a new one is
\* built and its init awaited, otherwise the scraper is returned at once
InvokeHandler ==
  /\ lambda.pc = "idle"
  /\ lambda.invocations < MaxInvocations
  /\ \E handler \in Handlers :
       IF ScraperMissing(lambda)
       THEN lambda' = [lambda EXCEPT !.scraper = "created", !.pc = "init",
                                     !.attempts = @ + 1,
                                     !.invocations = @ + 1,
                                     !.handler = handler, !.got = "none"]
       ELSE lambda' = [lambda EXCEPT !.invocations = @ + 1,
                                     !.handler = handler, !.got = "scraper"]
  /\ UNCHANGED <<notLambda, profiles, pc, initialized, db, disk>>

\* scraper.init() completes: initScraper returns the scraper
InitCompletes ==
  /\ lambda.pc = "init"
  /\ profiles' = loadProfiles(configFile)
  /\ db' = LoadWithDefaults(disk, now)
  /\ disk' = db'
  /\ initialized' = TRUE
  /\ pc' = "idle"
  /\ lambda' = [lambda EXCEPT !.pc = "idle", !.initDone = TRUE, !.got = "scraper"]
  /\ UNCHANGED notLambda

\* scraper.init() throws at one of its steps: what the steps before it did
\* stays, initScraper throws and the handler answers 500
InitThrows ==
  /\ lambda.pc = "init"
  /\ \E stage \in InitStages :
       /\ profiles' = IF stage \in {"dbService.init", "testConnections"}
                      THEN loadProfiles(configFile) ELSE profiles
       /\ IF stage = "testConnections"
          THEN /\ db' = LoadWithDefaults(disk, now)
               /\ disk' = db'
               /\ initialized' = TRUE
          ELSE UNCHANGED <<db, disk, initialized>>
  /\ lambda' = [lambda EXCEPT !.pc = "idle", !.got = "threw"]
  /\ UNCHANGED <<notLambda, pc>>

NextLambda == InvokeHandler \/ InitCompletes \/ InitThrows

SpecLambda == Init /\ [][NextLambda]_vars

\* the step starts an invocation
IsInvocation == lambda'.invocations = lambda.invocations + 1

\* initScraper never returns a scraper whose init did not complete
C38_ReturnsInitialised == lambda.got = "scraper" => lambda.initDone

\* after an invocation on which init threw, the next invocation runs init again
C38_RetriesAfterFailure ==
  [][(IsInvocation /\ ~lambda.initDone) => lambda'.pc = "init"]_vars

\* once init has succeeded it is not run again
C38_InitOnce ==
  [][lambda.initDone => lambda'.attempts = lambda.attempts]_vars

\* C38: across any sequence of invocations in one container, initScraper never
\* returns a scraper whose init did not complete successfully; if init throws
\* on one invocation, the next invocation attempts initialisation again
\* instead of reusing the failed instance, and init is run at most once after
\* it has succeeded.
C38_InitAllOrNothing ==
  /\ []C38_ReturnsInitialised
  /\ C38_RetriesAfterFailure
  /\ C38_InitOnce

----------------------------------------------------------------------------
(* Properties of waitForApifyRun *)

\* the step is a poll of the dataset
IsPoll == fetch.pc = "poll" /\ fetch'.polls = fetch.polls + 1

\* C39: waitForApifyRun performs at most 30 polls; it returns the dataset
\* items at the first poll that yields a non-empty list, treats a failed poll
\* (like an empty answer) as 'not ready' and keeps polling, and throws its
\* 'did not complete within expected time' error after the 30th poll without
\* a result, and only then; it never loops forever.
C39_PollingBounded ==
  /\ [](fetch.pc # "none" => fetch.polls <= maxAttempts)
  /\ [][IsPoll =>
          IF fetch'.answer = "items"
          THEN /\ fetch'.items # <<>>
               /\ fetch'.pc = "returned"
               /\ fetch'.result = SinceFilter(fetch'.items, fetch.sinceId)
          ELSE /\ fetch'.answer \in {"empty", "failed"}
               /\ fetch'.pc = "poll"
               /\ fetch'.items = <<>>]_vars
  /\ []((fetch.pc = "threw" /\ fetch.answer = "timeout")
          => fetch.polls = maxAttempts /\ fetch.items = <<>>)
  /\ [][(fetch.pc = "poll" /\ fetch.polls = maxAttempts)
          => (fetch'.pc = "threw" /\ fetch'.answer = "timeout")]_vars
  /\ (fetch.pc = "poll") ~> FetchEnded

\* the 30th poll failed like those before it and the function threw
C39_Witness ==
  /\ fetch.pc = "threw"
  /\ fetch.answer = "timeout"
  /\ fetch.polls = maxAttempts

\* the third poll was the first to answer with items, and they were returned
C39_WitnessItems ==
  /\ fetch.pc = "returned"
  /\ fetch.apiType = "apify"
  /\ fetch.polls = 3
  /\ fetch.attempts = 2
  /\ Len(fetch.items) = 2

====
